---- MODULE Spec2Model ----
(***************************************************************************)
(* Model of the magnetrun data-owner / field / format-definition /         *)
(* configuration core.                                                     *)
(*                                                                         *)
(*   SpecTab : PandasBasedData / PupitreData (one table, keys = columns)   *)
(*   SpecGrp : TDMSBasedData / PigbrotherData (group -> table)             *)
(*   SpecFld : Field, FormatDefinition, merge_format_definitions and the   *)
(*             field proxies of BaseData                                   *)
(*   SpecVal : MagnetData validation and coverage over keys and fields     *)
(*   SpecCfg : ConfigPaths / ConfigManager                                 *)
(*   SpecEnv : ConfigManager resolving its paths from the environment      *)
(*   SpecStore : ConfigManager and its files, edited from outside too      *)
(*   SpecReg : formats.registry.FormatRegistry and the format lookup of    *)
(*             BaseData                                                    *)
(*   SpecRun : MagnetRun.prepare_data over a tabular owner                 *)
(*   SpecEtl : the multi-file commands of cli.etl                          *)
(*   SpecHsg : HousingConfig's category classifiers                        *)
(*   SpecCoh : the manager's cache and files, written only through it      *)
(*   SpecMd  : MagnetData over a table handler with its own definition     *)
(***************************************************************************)
EXTENDS Integers, Sequences, FiniteSets, TLC

VARIABLES
    data,      \* PandasBasedData.data : the DataFrame, a sequence of columns
    keys,      \* BaseData._keys of the tabular owner
    tcall,     \* the last call on the tabular owner, its outcome and pre-state
    gdata,     \* TDMSBasedData.data : group name -> DataFrame
    gkeys,     \* BaseData._keys of the grouped owner
    gcall,     \* the last call on the grouped owner, its outcome and pre-state
    defn,      \* a FormatDefinition built by add_field calls
    overlay,   \* a second FormatDefinition (overlay of a merge)
    fcall,     \* the last Field / FormatDefinition call and its result
    env,       \* os.environ : MAGNETRUN_CONFIG_DIR (or "unset")
    envOver,   \* os.environ : MAGNETRUN_FORMATS_DIR (or "unset")
    clsPaths,  \* ConfigManager._config_paths, the class attribute
    instPaths, \* config_manager._config_paths, the instance attribute
    cache,     \* ConfigManager._config_cache
    disk,      \* the file system: directory -> config name -> content
    ccall,     \* the last ConfigManager call and its result
    regDefs,     \* FormatRegistry._format_definitions : name -> definition
    regHandlers, \* FormatRegistry._readers / _data_handlers : name -> classes
    rcall,       \* the last FormatRegistry / format lookup call and its result
    housings,    \* housing_config_manager._configs : the housing names loaded
    run,         \* a MagnetRun: its housing, its data, its housing config, last call
    batch,       \* a running etl command: its input files and its progress
    hcfg,        \* a HousingConfig's section for one magnet type and data format
    hcall,       \* the last HousingConfig call and its result
    handler,     \* a MagnetData's data handler: its definition and metadata
    mcall        \* the last call on the MagnetData or its handler

vars == <<data, keys, tcall, gdata, gkeys, gcall, defn, overlay, fcall,
          env, envOver, clsPaths, instPaths, cache, disk, ccall,
          regDefs, regHandlers, rcall, housings, run, batch, hcfg, hcall,
          handler, mcall>>

tabVars == <<data, keys, tcall>>
grpVars == <<gdata, gkeys, gcall>>
fldVars == <<defn, overlay, fcall>>
regVars == <<regDefs, regHandlers, rcall>>
cfgVars == <<env, envOver, clsPaths, instPaths, cache, disk, ccall, regVars>>
hsgVars == <<hcfg, hcall>>
mdVars == <<handler, mcall>>
appVars == <<housings, run, batch, hsgVars, mdVars>>

(***************************************************************************)
(* Bounds                                                                  *)
(***************************************************************************)
NRows == 1          \* rows of every table
MaxList == 2        \* longest key list handed to remove_data / get_data
MaxRename == 1      \* most entries of a rename_data mapping
MaxCols == 2        \* most columns a table grows to

\* cell values; closed under the products the formulas compute
Vals == {0, 1}

RECURSIVE SeqsUpTo(_, _)
SeqsUpTo(S, n) ==
    IF n = 0 THEN {<<>>}
    ELSE LET shorter == SeqsUpTo(S, n - 1)
         IN  shorter \cup {Append(s, x) : s \in {t \in shorter : Len(t) = n - 1}, x \in S}

SeqsOfLen(S, n) == {s \in SeqsUpTo(S, n) : Len(s) = n}

\* Python's `x in list`
InSeq(x, s) == \E i \in DOMAIN s : s[i] = x

\* Python's list.index(x), for x in the list
IndexOf(x, s) == CHOOSE i \in DOMAIN s : s[i] = x /\ \A j \in 1..(i - 1) : s[j] # x

(***************************************************************************)
(* pandas DataFrame: a sequence of columns [name, vals]; column labels     *)
(* need not be unique.                                                     *)
(***************************************************************************)
ColNames == {"a", "b", "c d"}

\* a label pandas.eval can resolve as a Python identifier
IsIdentifier(n) == n \in {"a", "b"}

Column(n, v) == [name |-> n, vals |-> v]

\* DataFrame.columns.tolist()
Columns(df) == [i \in DOMAIN df |-> df[i].name]

HasCol(df, n) == \E i \in DOMAIN df : df[i].name = n

CountCol(df, n) == Cardinality({i \in DOMAIN df : df[i].name = n})

\* the columns labelled n, in table order (df[n] for a repeated label)
ColsNamed(df, n) == LET Is(c) == c.name = n IN SelectSeq(df, Is)

\* df[key] = values (one array): every column labelled key is replaced,
\* a new label is appended at the end
PdSetItem(df, key, v) ==
    IF HasCol(df, key)
    THEN [i \in DOMAIN df |-> IF df[i].name = key THEN Column(key, v) ELSE df[i]]
    ELSE Append(df, Column(key, v))

\* df.drop(labels, axis=1): KeyError when a label is missing, otherwise
\* every column whose label is listed goes
PdDrop(df, labels) ==
    IF \E i \in DOMAIN labels : ~HasCol(df, labels[i])
    THEN [raised |-> "KeyError", df |-> df]
    ELSE LET Keep(c) == ~InSeq(c.name, labels)
         IN  [raised |-> "none", df |-> SelectSeq(df, Keep)]

\* df.rename(columns=mapping): every label is mapped once, simultaneously
PdRename(df, mapping) ==
    [i \in DOMAIN df |->
        IF df[i].name \in DOMAIN mapping
        THEN Column(mapping[df[i].name], df[i].vals)
        ELSE df[i]]

\* df[list_of_labels]: KeyError when a label is missing, otherwise the
\* columns of each label in request order
RECURSIVE PdSelectCols(_, _)
PdSelectCols(df, labels) ==
    IF labels = <<>> THEN <<>>
    ELSE ColsNamed(df, Head(labels)) \o PdSelectCols(df, Tail(labels))

PdSelect(df, labels) ==
    IF \E i \in DOMAIN labels : ~HasCol(df, labels[i])
    THEN [raised |-> "KeyError", df |-> <<>>]
    ELSE [raised |-> "none", df |-> PdSelectCols(df, labels)]

(***************************************************************************)
(* DataFrame.eval on the expressions the model draws: a bare column name,  *)
(* a product of two columns, a numeric literal.  A label that is not a     *)
(* Python identifier does not evaluate; a repeated label resolves to its   *)
(* last column.                                                            *)
(***************************************************************************)
ExprCol(n) == [k |-> "col", n |-> n, l |-> "", r |-> "", v |-> 0]
ExprMul(l, r) == [k |-> "mul", n |-> "", l |-> l, r |-> r, v |-> 0]
ExprConst(v) == [k |-> "const", n |-> "", l |-> "", r |-> "", v |-> v]

Exprs == {ExprCol(n) : n \in ColNames}
         \cup {ExprMul("a", "b")}
         \cup {ExprConst(1)}

\* the text of the expression, as compared with the column labels
ExprText(e) == IF e.k = "col" THEN e.n ELSE "<expression>"

LastColVals(df, n) ==
    LET i == CHOOSE i \in DOMAIN df :
                 df[i].name = n /\ \A j \in DOMAIN df : j > i => df[j].name # n
    IN  df[i].vals

Resolves(df, n) == IsIdentifier(n) /\ HasCol(df, n)

PdEval(df, e) ==
    IF e.k = "const"
    THEN [raised |-> "none", vals |-> [i \in 1..NRows |-> e.v]]
    ELSE IF e.k = "col"
    THEN IF Resolves(df, e.n)
         THEN [raised |-> "none", vals |-> LastColVals(df, e.n)]
         ELSE [raised |-> IF IsIdentifier(e.n) THEN "UndefinedVariableError"
                          ELSE "SyntaxError",
               vals |-> <<>>]
    ELSE IF Resolves(df, e.l) /\ Resolves(df, e.r)
         THEN [raised |-> "none",
               vals |-> [i \in 1..NRows |->
                           LastColVals(df, e.l)[i] * LastColVals(df, e.r)[i]]]
         ELSE [raised |-> "UndefinedVariableError", vals |-> <<>>]

\* df[key] = df[src]: df[src] is a Series when src labels one column and a
\* DataFrame when it labels several; a DataFrame is accepted only for a key
\* that labels as many columns
PdSetItemFrom(df, key, src) ==
    IF CountCol(df, src) = 1
    THEN [raised |-> "none", df |-> PdSetItem(df, key, LastColVals(df, src))]
    ELSE IF HasCol(df, key) /\ CountCol(df, key) = CountCol(df, src)
    THEN LET piece == ColsNamed(df, src)
             Rank(i) == Cardinality({j \in 1..i : df[j].name = key})
         IN  [raised |-> "none",
              df |-> [i \in DOMAIN df |->
                        IF df[i].name = key
                        THEN Column(key, piece[Rank(i)].vals)
                        ELSE df[i]]]
    ELSE [raised |-> "ValueError", df |-> df]

(***************************************************************************)
(* BaseData: the shared key-list operations                                *)
(***************************************************************************)
\* list.remove(x): the first occurrence goes
RemoveFirst(s, x) ==
    LET i == IndexOf(x, s)
    IN  [j \in 1..(Len(s) - 1) |-> IF j < i THEN s[j] ELSE s[j + 1]]

\* BaseData.remove_data: the loop over existing_keys; list.remove raises
\* ValueError when the key is no longer there, earlier removals stay
RECURSIVE RemoveEach(_, _)
RemoveEach(ks, todo) ==
    IF todo = <<>> THEN [raised |-> "none", keys |-> ks]
    ELSE IF InSeq(Head(todo), ks)
         THEN RemoveEach(RemoveFirst(ks, Head(todo)), Tail(todo))
         ELSE [raised |-> "ValueError", keys |-> ks]

BaseRemoveData(ks, klist) ==
    LET Existing(k) == InSeq(k, ks)
    IN  RemoveEach(ks, SelectSeq(klist, Existing))

\* BaseData.rename_data: the mapping's items in insertion order, each
\* replacing the first occurrence of old_key
RECURSIVE BaseRenameData(_, _)
BaseRenameData(ks, items) ==
    IF items = <<>> THEN ks
    ELSE LET old == Head(items)[1]
             new == Head(items)[2]
         IN  IF InSeq(old, ks)
             THEN BaseRenameData([ks EXCEPT ![IndexOf(old, ks)] = new], Tail(items))
             ELSE BaseRenameData(ks, Tail(items))

\* BaseData.validate_keys: a str is one key; any absent key raises
ValidateKeys(ks, req) ==
    IF \E i \in DOMAIN req : ~InSeq(req[i], ks)
    THEN [raised |-> "KeyNotFoundError", keys |-> <<>>]
    ELSE [raised |-> "none", keys |-> req]

\* a rename mapping (dict) as its items in insertion order; as a function
ItemsOver(S) ==
    {m \in SeqsUpTo(S \X S, MaxRename) :
        \A i, j \in DOMAIN m : i # j => m[i][1] # m[j][1]}

DictOf(items) ==
    [o \in {items[i][1] : i \in DOMAIN items} |->
        items[CHOOSE i \in DOMAIN items : items[i][1] = o][2]]

(***************************************************************************)
(* PandasBasedData / PupitreData                                           *)
(***************************************************************************)
NoExpr == ExprConst(0)

Literal(kind, v, ndim) == [kind |-> kind, vals |-> v, ndim |-> ndim, expr |-> NoExpr]
Formula(e) == [kind |-> "str", vals |-> <<>>, ndim |-> 0, expr |-> e]
Unsupported == [kind |-> "int", vals |-> <<>>, ndim |-> 0, expr |-> NoExpr]

\* literal inputs: every sequence of the table's length, one shorter and one
\* longer sequence, and a two-dimensional array of the table's length
Zeros(n) == [i \in 1..n |-> 0]

LiteralVals ==
    SeqsOfLen(Vals, NRows) \cup {Zeros(NRows + 1)}
    \cup (IF NRows > 0 THEN {Zeros(NRows - 1)} ELSE {})

Literals ==
    {Literal(kind, v, 1) : kind \in {"list", "Series"}, v \in LiteralVals}
    \cup {Literal("ndarray", Zeros(NRows), 2)}

AddInputs == Literals \cup {Formula(e) : e \in Exprs} \cup {Unsupported}

\* _add_formula without its fallback to the column named by the expression
AddFormulaNoFallback(df, key, input) ==
    LET expression == input.expr
        ev == PdEval(df, expression)
    IN  IF ev.raised = "none"
        THEN [raised |-> "none", df |-> PdSetItem(df, key, ev.vals)]
        ELSE [raised |-> "DataFormatError", df |-> df]

\* _add_formula: evaluate the right-hand side; on failure fall back to the
\* column whose label is the expression text; otherwise DataFormatError
AddFormula(df, key, input) ==
    LET expression == input.expr
        ev == PdEval(df, expression)
    IN  IF ev.raised = "none"
        THEN [raised |-> "none", df |-> PdSetItem(df, key, ev.vals)]
        ELSE IF HasCol(df, ExprText(expression))
        THEN LET r == PdSetItemFrom(df, key, ExprText(expression))
             IN  IF r.raised = "none" THEN r
                 ELSE [raised |-> "DataFormatError", df |-> df]
        ELSE [raised |-> "DataFormatError", df |-> df]

\* _add_direct_data without its length check
AddDirectDataUnchecked(df, key, input) ==
    IF input.ndim # 1
    THEN [raised |-> "ValueError", df |-> df]
    ELSE [raised |-> "none", df |-> PdSetItem(df, key, input.vals)]

\* _add_direct_data: the length check, then the column assignment (which
\* pandas refuses, with ValueError, for a two-dimensional array)
AddDirectData(df, key, input) ==
    IF input.kind \in {"Series", "ndarray", "list"}
    THEN IF Len(input.vals) # NRows
         THEN [raised |-> "DataFormatError", df |-> df]
         ELSE IF input.ndim # 1
         THEN [raised |-> "ValueError", df |-> df]
         ELSE [raised |-> "none", df |-> PdSetItem(df, key, input.vals)]
    ELSE [raised |-> "DataFormatError", df |-> df]

\* the except clause of add_data: every exception leaves as DataFormatError
WrapAddError(raised) == IF raised = "none" THEN "none" ELSE "DataFormatError"

\* add_data appending the key whether or not it is already listed
AddDataResultAlwaysAppends(df, ks, key, input) ==
    LET r == IF input.kind = "str" THEN AddFormula(df, key, input)
             ELSE IF input.kind \in {"Series", "ndarray", "list"}
             THEN AddDirectData(df, key, input)
             ELSE [raised |-> "DataFormatError", df |-> df]
    IN  [raised |-> WrapAddError(r.raised),
         df |-> r.df,
         keys |-> IF r.raised = "none" THEN Append(ks, key) ELSE ks]

\* add_data
AddDataResult(df, ks, key, input) ==
    LET r == IF input.kind = "str" THEN AddFormula(df, key, input)
             ELSE IF input.kind \in {"Series", "ndarray", "list"}
             THEN AddDirectData(df, key, input)
             ELSE [raised |-> "DataFormatError", df |-> df]
    IN  [raised |-> WrapAddError(r.raised),
         df |-> r.df,
         keys |-> IF r.raised = "none" /\ ~InSeq(key, ks) THEN Append(ks, key) ELSE ks]

\* PandasBasedData.remove_data
RemoveDataResult(df, ks, klist) ==
    LET Existing(k) == InSeq(k, ks)
        existing_keys == SelectSeq(klist, Existing)
    IN  IF existing_keys = <<>>
        THEN [raised |-> "none", df |-> df, keys |-> ks]
        ELSE LET d == PdDrop(df, existing_keys)
             IN  IF d.raised # "none"
                 THEN [raised |-> d.raised, df |-> df, keys |-> ks]
                 ELSE LET b == BaseRemoveData(ks, existing_keys)
                      IN  [raised |-> b.raised, df |-> d.df, keys |-> b.keys]

\* PandasBasedData.rename_data: the keys list is re-read from the table
RenameDataResult(df, ks, items) ==
    LET renamed == PdRename(df, DictOf(items))
    IN  [raised |-> "none", df |-> renamed, keys |-> Columns(renamed)]

\* PandasBasedData.get_data
GetDataResult(df, ks, req) ==
    LET v == ValidateKeys(ks, req)
    IN  IF v.raised # "none"
        THEN [raised |-> v.raised, df |-> <<>>]
        ELSE PdSelect(df, v.keys)

TCall(op, key, klist, items, input, raised, ret) ==
    [op |-> op, key |-> key, klist |-> klist, items |-> items, input |-> input,
     raised |-> raised, ret |-> ret, preData |-> data, preKeys |-> keys]

NoTCall ==
    [op |-> "init", key |-> "", klist |-> <<>>, items |-> <<>>, input |-> Unsupported,
     raised |-> "none", ret |-> <<>>, preData |-> <<>>, preKeys |-> <<>>]

TabInit ==
    /\ \E v \in SeqsOfLen(Vals, NRows), w \in SeqsOfLen(Vals, NRows) :
           data = <<Column("a", v), Column("b", w)>>
    /\ keys = Columns(data)
    /\ tcall = NoTCall

TabIdle == data = <<>> /\ keys = <<>> /\ tcall = NoTCall

AddData(key, input) ==
    LET r == AddDataResult(data, keys, key, input)
    IN  /\ Len(r.df) <= MaxCols
        /\ data' = r.df
        /\ keys' = r.keys
        /\ tcall' = TCall("add_data", key, <<>>, <<>>, input, r.raised, <<>>)
        /\ UNCHANGED <<grpVars, appVars, fldVars, cfgVars>>

RemoveData(klist) ==
    LET r == RemoveDataResult(data, keys, klist)
    IN  /\ data' = r.df
        /\ keys' = r.keys
        /\ tcall' = TCall("remove_data", "", klist, <<>>, Unsupported, r.raised, <<>>)
        /\ UNCHANGED <<grpVars, appVars, fldVars, cfgVars>>

RenameData(items) ==
    LET r == RenameDataResult(data, keys, items)
    IN  /\ data' = r.df
        /\ keys' = r.keys
        /\ tcall' = TCall("rename_data", "", <<>>, items, Unsupported, r.raised, <<>>)
        /\ UNCHANGED <<grpVars, appVars, fldVars, cfgVars>>

GetData(req) ==
    LET r == GetDataResult(data, keys, req)
    IN  /\ UNCHANGED <<data, keys>>
        /\ tcall' = TCall("get_data", "", req, <<>>, Unsupported, r.raised, r.df)
        /\ UNCHANGED <<grpVars, appVars, fldVars, cfgVars>>

TabNext ==
    \/ \E key \in ColNames, input \in AddInputs : AddData(key, input)
    \/ \E klist \in SeqsUpTo(ColNames, MaxList) : RemoveData(klist)
    \/ \E items \in ItemsOver(ColNames) : RenameData(items)
    \/ \E req \in SeqsUpTo(ColNames, MaxList) \ {<<>>} : GetData(req)


(***************************************************************************)
(* TDMSBasedData / PigbrotherData.  A key "group/channel" is the pair      *)
(* <<group, channel>>; a key without "/" is a 1-tuple.  remove_data and    *)
(* rename_data are BaseData's; add_data is not implemented.                *)
(***************************************************************************)
GroupOrder == <<"g", "h">>        \* the groups, in the data dictionary's order
Groups == {GroupOrder[i] : i \in DOMAIN GroupOrder}

GKey(g, c) == <<g, c>>            \* f"{group}/{channel}"
HasSlash(k) == Len(k) = 2         \* "/" in key_name

GKeyUniverse == {GKey("g", "x"), GKey("g", "y"), GKey("h", "x"), <<"z">>}

\* the keys a reader hands over: every channel of every group, in order
RECURSIVE ReaderKeys(_, _)
ReaderKeys(tables, order) ==
    IF order = <<>> THEN <<>>
    ELSE [i \in DOMAIN tables[Head(order)] |->
              GKey(Head(order), tables[Head(order)][i].name)]
         \o ReaderKeys(tables, Tail(order))

\* get_data(None): the group tables side by side, labels prefixed
RECURSIVE GetAllGroups(_, _)
GetAllGroups(tables, order) ==
    IF order = <<>> THEN <<>>
    ELSE [i \in DOMAIN tables[Head(order)] |->
              Column(GKey(Head(order), tables[Head(order)][i].name),
                     tables[Head(order)][i].vals)]
         \o GetAllGroups(tables, Tail(order))

\* result_data[key_name] = series: a dict keeps one entry per key, at the
\* position of its first insertion
DictPut(cols, k, v) ==
    IF HasCol(cols, k)
    THEN [i \in DOMAIN cols |-> IF cols[i].name = k THEN Column(k, v) ELSE cols[i]]
    ELSE Append(cols, Column(k, v))

\* the loop of TDMSBasedData.get_data over the selected keys
RECURSIVE CollectChannels(_, _, _)
CollectChannels(tables, selected, acc) ==
    IF selected = <<>> THEN acc
    ELSE LET k == Head(selected)
         IN  IF HasSlash(k) /\ k[1] \in DOMAIN tables /\ HasCol(tables[k[1]], k[2])
             THEN CollectChannels(tables, Tail(selected),
                                  DictPut(acc, k, LastColVals(tables[k[1]], k[2])))
             ELSE CollectChannels(tables, Tail(selected), acc)

\* TDMSBasedData.get_data
GrpGetDataResult(tables, ks, req) ==
    LET v == ValidateKeys(ks, req)
    IN  IF v.raised # "none"
        THEN [raised |-> v.raised, df |-> <<>>]
        ELSE [raised |-> "none", df |-> CollectChannels(tables, v.keys, <<>>)]

GCall(op, klist, items, raised, ret) ==
    [op |-> op, klist |-> klist, items |-> items, raised |-> raised, ret |-> ret,
     preData |-> gdata, preKeys |-> gkeys]

NoGCall ==
    [op |-> "init", klist |-> <<>>, items |-> <<>>, raised |-> "none", ret |-> <<>>,
     preData |-> <<>>, preKeys |-> <<>>]

GrpIdle == gdata = <<>> /\ gkeys = <<>> /\ gcall = NoGCall

GrpInit ==
    /\ \E u \in SeqsOfLen(Vals, NRows), v \in SeqsOfLen(Vals, NRows) :
           gdata = [grp \in Groups |->
                       IF grp = "g" THEN <<Column("x", u), Column("y", v)>>
                       ELSE <<Column("x", v)>>]
    /\ gkeys = ReaderKeys(gdata, GroupOrder)
    /\ gcall = NoGCall

\* BaseData.remove_data on the grouped owner
GrpRemoveData(klist) ==
    LET r == BaseRemoveData(gkeys, klist)
    IN  /\ gkeys' = r.keys
        /\ gdata' = gdata
        /\ gcall' = GCall("remove_data", klist, <<>>, r.raised, <<>>)
        /\ UNCHANGED <<tabVars, appVars, fldVars, cfgVars>>

\* BaseData.rename_data on the grouped owner
GrpRenameData(items) ==
    /\ gkeys' = BaseRenameData(gkeys, items)
    /\ gdata' = gdata
    /\ gcall' = GCall("rename_data", <<>>, items, "none", <<>>)
    /\ UNCHANGED <<tabVars, appVars, fldVars, cfgVars>>

\* TDMSBasedData.add_data
GrpAddData ==
    /\ gcall' = GCall("add_data", <<>>, <<>>, "NotImplementedError", <<>>)
    /\ UNCHANGED <<gdata, gkeys, tabVars, appVars, fldVars, cfgVars>>

GrpGetData(req) ==
    LET r == GrpGetDataResult(gdata, gkeys, req)
    IN  /\ gcall' = GCall("get_data", req, <<>>, r.raised, r.df)
        /\ UNCHANGED <<gdata, gkeys, tabVars, appVars, fldVars, cfgVars>>

GrpGetAll ==
    /\ gcall' = GCall("get_all", <<>>, <<>>, "none", GetAllGroups(gdata, GroupOrder))
    /\ UNCHANGED <<gdata, gkeys, tabVars, appVars, fldVars, cfgVars>>

GrpNext ==
    \/ \E klist \in SeqsUpTo(GKeyUniverse, MaxList) : GrpRemoveData(klist)
    \/ \E items \in ItemsOver(GKeyUniverse) : GrpRenameData(items)
    \/ GrpAddData
    \/ \E req \in SeqsUpTo(GKeyUniverse, MaxList) \ {<<>>} : GrpGetData(req)
    \/ GrpGetAll

(***************************************************************************)
(* FieldType and Field                                                     *)
(***************************************************************************)
FieldTypes ==
    {"TIME", "MAGNETIC_FIELD", "CURRENT", "VOLTAGE", "TEMPERATURE", "PRESSURE",
     "FLOW_RATE", "POWER", "ROTATION_SPEED", "PERCENTAGE", "RESISTANCE",
     "COORDINATE", "LENGTH", "AREA", "VOLUME", "INDEX"}

\* FieldType.X.value
FieldTypeValue(ft) ==
    CASE ft = "TIME" -> "time"
      [] ft = "MAGNETIC_FIELD" -> "magnetic_field"
      [] ft = "CURRENT" -> "current"
      [] ft = "VOLTAGE" -> "voltage"
      [] ft = "TEMPERATURE" -> "temperature"
      [] ft = "PRESSURE" -> "pressure"
      [] ft = "FLOW_RATE" -> "flow_rate"
      [] ft = "POWER" -> "power"
      [] ft = "ROTATION_SPEED" -> "rotation_speed"
      [] ft = "PERCENTAGE" -> "percentage"
      [] ft = "RESISTANCE" -> "resistance"
      [] ft = "COORDINATE" -> "coordinate"
      [] ft = "LENGTH" -> "length"
      [] ft = "AREA" -> "area"
      [] ft = "VOLUME" -> "volume"
      [] ft = "INDEX" -> "index"

\* FieldType(value): the member with that value; ValueError for any other
FieldTypeOf(value) ==
    IF \E ft \in FieldTypes : FieldTypeValue(ft) = value
    THEN CHOOSE ft \in FieldTypes : FieldTypeValue(ft) = value
    ELSE "ValueError"

\* Field._get_default_symbol
DefaultSymbol(ft, name) ==
    CASE ft = "TIME" -> "t"
      [] ft = "MAGNETIC_FIELD" -> "B"
      [] ft = "CURRENT" -> "I"
      [] ft = "VOLTAGE" -> "U"
      [] ft = "TEMPERATURE" -> "T"
      [] ft = "PRESSURE" -> "P"
      [] ft = "FLOW_RATE" -> "Q"
      [] ft = "POWER" -> "P"
      [] ft = "ROTATION_SPEED" -> "omega"
      [] ft = "PERCENTAGE" -> "%"
      [] ft = "RESISTANCE" -> "R"
      [] ft = "COORDINATE" -> "x"
      [] ft = "LENGTH" -> "L"
      [] ft = "AREA" -> "A"
      [] ft = "VOLUME" -> "V"
      [] ft = "INDEX" -> "idx"
      [] OTHER -> name

\* Field(...) with __post_init__: an empty symbol becomes the type's default
Field(name, ft, unit, symbol, description) ==
    [name |-> name, field_type |-> ft, unit |-> unit,
     symbol |-> IF symbol = "" THEN DefaultSymbol(ft, name) ELSE symbol,
     description |-> description]

(***************************************************************************)
(* The unit registry: ureg.parse_expression on the unit strings the model  *)
(* draws.  A parsed unit is its dimension and its size, in the smallest    *)
(* unit of that dimension the model knows; any other string does not       *)
(* parse.  Magnitudes are exact fractions [num, den] in lowest terms.      *)
(***************************************************************************)
KnownUnits == {"tesla", "millitesla", "gauss", "ampere", "milliampere",
               "dimensionless", "percent"}

UnitStrings == KnownUnits \cup {"not_a_unit"}

UnitDim(u) ==
    CASE u \in {"tesla", "millitesla", "gauss"} -> "[magnetic_field]"
      [] u \in {"ampere", "milliampere"} -> "[current]"
      [] u \in {"dimensionless", "percent"} -> "dimensionless"

UnitSize(u) ==
    CASE u = "tesla" -> 10000
      [] u = "millitesla" -> 10
      [] u = "gauss" -> 1
      [] u = "ampere" -> 1000
      [] u = "milliampere" -> 1
      [] u = "dimensionless" -> 100
      [] u = "percent" -> 1

UnitObject(u) == [dim |-> UnitDim(u), size |-> UnitSize(u)]

\* ureg.parse_expression
ParseExpression(u) ==
    IF u \in KnownUnits
    THEN [raised |-> "none", unit |-> UnitObject(u)]
    ELSE [raised |-> "UndefinedUnitError", unit |-> UnitObject("dimensionless")]

\* Field.get_unit_object: dimensionless when the unit does not parse
GetUnitObject(f) ==
    LET p == ParseExpression(f.unit)
    IN  IF p.raised = "none" THEN p.unit ELSE UnitObject("dimensionless")

RECURSIVE Gcd(_, _)
Gcd(a, b) == IF b = 0 THEN a ELSE Gcd(b, a % b)

Frac(n, d) == LET g == Gcd(n, d) IN [num |-> n \div g, den |-> d \div g]

\* Field.convert_value with the unit the target falls back to when it does
\* not parse, as get_unit_object does for the field's own unit
ConvertValueLenient(f, value, target_unit) ==
    LET source_unit == GetUnitObject(f)
        p == ParseExpression(target_unit)
    IN  IF source_unit.dim # p.unit.dim
        THEN value
        ELSE Frac(value.num * source_unit.size, value.den * p.unit.size)

\* Field.convert_value
ConvertValue(f, value, target_unit) ==
    LET source_unit == GetUnitObject(f)
        p == ParseExpression(target_unit)
    IN  IF p.raised # "none"
        THEN value                       \* except Exception: return value
        ELSE IF source_unit.dim # p.unit.dim
        THEN value                       \* DimensionalityError, caught
        ELSE Frac(value.num * source_unit.size, value.den * p.unit.size)

\* Field.convert_values
ConvertValues(f, values, target_unit) ==
    [i \in DOMAIN values |-> ConvertValue(f, values[i], target_unit)]

\* the "~P" rendering of a parsed unit expression (a quantity of magnitude 1)
RenderShort(u) ==
    CASE u = "tesla" -> "1 T"
      [] u = "millitesla" -> "1 mT"
      [] u = "gauss" -> "1 G"
      [] u = "ampere" -> "1 A"
      [] u = "milliampere" -> "1 mA"
      [] u = "dimensionless" -> "1"
      [] u = "percent" -> "1 %"

\* Field.format_unit: the rendering of get_unit_object's result; the
\* dimensionless fallback renders as the empty string
FormatUnit(f) ==
    IF ParseExpression(f.unit).raised = "none" THEN RenderShort(f.unit) ELSE ""

\* Field.get_label; a label is the tuple of the pieces of its text
GetLabel(f, show_unit) ==
    IF show_unit /\ FormatUnit(f) # "" /\ FormatUnit(f) # "dimensionless"
    THEN <<f.symbol, " [", FormatUnit(f), "]">>
    ELSE <<f.symbol>>

\* Field.to_dict
FieldToDict(f) ==
    [name |-> f.name, field_type |-> FieldTypeValue(f.field_type), unit |-> f.unit,
     symbol |-> f.symbol, description |-> f.description]

\* Field.from_dict reading no symbol
FieldFromDictNoSymbol(d) ==
    Field(d.name, FieldTypeOf(d.field_type), d.unit, "", d.description)

\* Field.from_dict
FieldFromDict(d) ==
    Field(d.name, FieldTypeOf(d.field_type), d.unit, d.symbol, d.description)

(***************************************************************************)
(* FormatDefinition: fields is a dict, kept as the sequence of its values  *)
(* in insertion order; metadata is a dict, kept as a function              *)
(***************************************************************************)
EmptyDict == [k \in {} |-> ""]

\* dict.copy() followed by dict.update(other)
DictUpdate(a, b) ==
    [k \in DOMAIN a \cup DOMAIN b |-> IF k \in DOMAIN b THEN b[k] ELSE a[k]]

\* FormatDefinition(format_name)
NewFormatDefinition(format_name) ==
    [format_name |-> format_name, fields |-> <<>>, metadata |-> EmptyDict]

FieldNames(d) == {d.fields[i].name : i \in DOMAIN d.fields}

\* add_field keeping every entry (a list where the code has a dict)
AddFieldKeepingOld(d, f) == [d EXCEPT !.fields = Append(d.fields, f)]

\* FormatDefinition.add_field: self.fields[field.name] = field
AddField(d, f) ==
    IF f.name \in FieldNames(d)
    THEN [d EXCEPT !.fields =
              [i \in DOMAIN d.fields |->
                  IF d.fields[i].name = f.name THEN f ELSE d.fields[i]]]
    ELSE [d EXCEPT !.fields = Append(d.fields, f)]

NoField == [name |-> "None", field_type |-> "None", unit |-> "None",
            symbol |-> "None", description |-> "None"]

\* FormatDefinition.get_field: self.fields.get(name)
GetField(d, name) ==
    IF name \in FieldNames(d)
    THEN d.fields[CHOOSE i \in DOMAIN d.fields :
                      d.fields[i].name = name
                      /\ \A j \in 1..(i - 1) : d.fields[j].name # name]
    ELSE NoField

RECURSIVE AddFields(_, _)
AddFields(d, fs) ==
    IF fs = <<>> THEN d ELSE AddFields(AddField(d, Head(fs)), Tail(fs))

\* FormatDefinition.to_dict
ToDict(d) ==
    [format_name |-> d.format_name, metadata |-> d.metadata,
     fields |-> [i \in DOMAIN d.fields |-> FieldToDict(d.fields[i])]]

\* FormatDefinition.from_dict
FromDict(dct) ==
    AddFields([NewFormatDefinition(dct.format_name) EXCEPT !.metadata = dct.metadata],
              [i \in DOMAIN dct.fields |-> FieldFromDict(dct.fields[i])])

\* merge_format_definitions
MergeFormatDefinitions(base_format, overlay_format) ==
    LET merged == [NewFormatDefinition(base_format.format_name)
                       EXCEPT !.metadata = base_format.metadata]
        withBase == AddFields(merged, base_format.fields)
        updated == [withBase EXCEPT
                       !.metadata = DictUpdate(withBase.metadata, overlay_format.metadata)]
    IN  AddFields(updated, overlay_format.fields)

(***************************************************************************)
(* BaseData: the field-aware proxies; definition is None or a definition   *)
(***************************************************************************)
NoUnit == [dim |-> "None", size |-> 0]

NoDefinition == [format_name |-> "None", fields |-> <<>>, metadata |-> EmptyDict]

\* get_field_info falling back to an empty symbol
GetFieldInfoEmptyFallback(definition, key) ==
    IF definition # NoDefinition /\ GetField(definition, key) # NoField
    THEN LET field == GetField(definition, key)
         IN  <<field.symbol, GetUnitObject(field), FormatUnit(field)>>
    ELSE <<"", NoUnit, "">>

\* BaseData.get_field_info
GetFieldInfo(definition, key) ==
    IF definition # NoDefinition /\ GetField(definition, key) # NoField
    THEN LET field == GetField(definition, key)
         IN  <<field.symbol, GetUnitObject(field), FormatUnit(field)>>
    ELSE <<key, NoUnit, "">>

\* BaseData.get_field_label
GetFieldLabel(definition, key, show_unit) ==
    IF definition # NoDefinition /\ GetField(definition, key) # NoField
    THEN GetLabel(GetField(definition, key), show_unit)
    ELSE <<key>>

\* BaseData.convert_field_values
ConvertFieldValues(definition, key, values, target_unit) ==
    IF definition = NoDefinition
    THEN values
    ELSE IF GetField(definition, key) = NoField
    THEN values
    ELSE ConvertValues(GetField(definition, key), values, target_unit)

(***************************************************************************)
(* The fields, metadata and queries the field specifications draw from     *)
(***************************************************************************)
MaxFields == 2      \* most fields of a definition

FieldPool ==
    {Field("Field", "MAGNETIC_FIELD", "tesla", "", "Magnetic field"),
     Field("Field", "MAGNETIC_FIELD", "gauss", "Phi", ""),
     Field("Ratio", "PERCENTAGE", "percent", "", ""),
     Field("Junk", "INDEX", "not_a_unit", "", "")}

QueryKeys == {"Field", "Ratio", "Junk", "Unbound"}

MetadataPool == {EmptyDict, [description |-> "base"], [description |-> "over", version |-> "2"]}

TargetUnits == {"gauss", "percent", "ampere", "not_a_unit"}

ValueLists == {<<Frac(3, 1)>>, <<Frac(1, 1), Frac(3, 1)>>}

FCall(op, bound, key, values, unit, ret) ==
    [op |-> op, bound |-> bound, key |-> key, values |-> values, unit |-> unit,
     ret |-> ret, preDefn |-> defn]

NoFCall ==
    [op |-> "init", bound |-> FALSE, key |-> "", values |-> <<>>, unit |-> "",
     ret |-> <<>>, preDefn |-> NoDefinition]

FldIdle == defn = NoDefinition /\ overlay = NoDefinition /\ fcall = NoFCall

\* self.definition of the data owner: None or the definition
Bound(b) == IF b THEN defn ELSE NoDefinition

(***************************************************************************)
(* SpecFld: a data owner's bound definition, its Fields and the proxies    *)
(***************************************************************************)
FldInit ==
    /\ defn = NewFormatDefinition("pupitre")
    /\ overlay = NoDefinition
    /\ fcall = NoFCall

FldAddField(f) ==
    /\ Len(AddField(defn, f).fields) <= MaxFields
    /\ defn' = AddField(defn, f)
    /\ fcall' = FCall("add_field", TRUE, f.name, <<>>, "", <<>>)
    /\ UNCHANGED <<overlay, tabVars, grpVars, appVars, cfgVars>>

FldGetFieldInfo(b, key) ==
    /\ fcall' = FCall("get_field_info", b, key, <<>>, "", GetFieldInfo(Bound(b), key))
    /\ UNCHANGED <<defn, overlay, tabVars, grpVars, appVars, cfgVars>>

FldGetFieldLabel(b, key, show_unit) ==
    /\ fcall' = FCall("get_field_label", b, key, <<>>, "",
                      GetFieldLabel(Bound(b), key, show_unit))
    /\ UNCHANGED <<defn, overlay, tabVars, grpVars, appVars, cfgVars>>

FldConvertFieldValues(b, key, values, target_unit) ==
    /\ fcall' = FCall("convert_field_values", b, key, values, target_unit,
                      ConvertFieldValues(Bound(b), key, values, target_unit))
    /\ UNCHANGED <<defn, overlay, tabVars, grpVars, appVars, cfgVars>>

\* Field.convert_value on a Field of the definition
FldConvertValue(i, value, target_unit) ==
    /\ fcall' = FCall("convert_value", TRUE, defn.fields[i].name, <<value>>, target_unit,
                      ConvertValue(defn.fields[i], value, target_unit))
    /\ UNCHANGED <<defn, overlay, tabVars, grpVars, appVars, cfgVars>>

\* Field.convert_values on a Field of the definition
FldConvertValues(i, values, target_unit) ==
    /\ fcall' = FCall("convert_values", TRUE, defn.fields[i].name, values, target_unit,
                      ConvertValues(defn.fields[i], values, target_unit))
    /\ UNCHANGED <<defn, overlay, tabVars, grpVars, appVars, cfgVars>>

FldNext ==
    \/ \E f \in FieldPool : FldAddField(f)
    \/ \E b \in BOOLEAN, key \in QueryKeys : FldGetFieldInfo(b, key)
    \/ \E b \in BOOLEAN, key \in QueryKeys, show_unit \in BOOLEAN :
           FldGetFieldLabel(b, key, show_unit)
    \/ \E b \in BOOLEAN, key \in QueryKeys, values \in ValueLists, u \in TargetUnits :
           FldConvertFieldValues(b, key, values, u)
    \/ \E i \in DOMAIN defn.fields, values \in ValueLists, u \in TargetUnits :
           FldConvertValue(i, values[1], u)
    \/ \E i \in DOMAIN defn.fields, values \in ValueLists, u \in TargetUnits :
           FldConvertValues(i, values, u)

(***************************************************************************)
(* SpecFmt: two definitions built by add_field, serialised and merged      *)
(***************************************************************************)
FmtInit ==
    /\ defn \in {NewFormatDefinition("pupitre")}
    /\ overlay \in {NewFormatDefinition("custom")}
    /\ fcall = NoFCall

FmtAddField(f) ==
    /\ Len(AddField(defn, f).fields) <= MaxFields
    /\ defn' = AddField(defn, f)
    /\ fcall' = FCall("add_field", TRUE, f.name, <<>>, "", <<>>)
    /\ UNCHANGED <<overlay, tabVars, grpVars, appVars, cfgVars>>

FmtAddOverlayField(f) ==
    /\ Len(AddField(overlay, f).fields) <= MaxFields
    /\ overlay' = AddField(overlay, f)
    /\ fcall' = FCall("add_field", TRUE, f.name, <<>>, "", <<>>)
    /\ UNCHANGED <<defn, tabVars, grpVars, appVars, cfgVars>>

\* format_def.metadata = {...}
FmtSetMetadata(m) ==
    /\ defn' = [defn EXCEPT !.metadata = m]
    /\ fcall' = FCall("set_metadata", TRUE, "", <<>>, "", <<>>)
    /\ UNCHANGED <<overlay, tabVars, grpVars, appVars, cfgVars>>

FmtSetOverlayMetadata(m) ==
    /\ overlay' = [overlay EXCEPT !.metadata = m]
    /\ fcall' = FCall("set_metadata", TRUE, "", <<>>, "", <<>>)
    /\ UNCHANGED <<defn, tabVars, grpVars, appVars, cfgVars>>

\* f"Calculated field: {key}"
CalculatedDescription(key) ==
    CASE key = "Field" -> "Calculated field: Field"
      [] key = "Ratio" -> "Calculated field: Ratio"
      [] key = "Junk" -> "Calculated field: Junk"
      [] key = "a" -> "Calculated field: a"
      [] key = "b" -> "Calculated field: b"
      [] key = "c d" -> "Calculated field: c d"
      [] OTHER -> "Calculated field: Unbound"

\* MagnetData.add_data, after the handler has added the column: a Field is
\* created for a key that has none, here with field_type, unit and symbol
\* given by the caller; an unknown field_type value becomes INDEX
FmtAddCalculatedField(key, field_type, unit, symbol) ==
    LET ft == IF FieldTypeOf(field_type) = "ValueError" THEN "INDEX"
              ELSE FieldTypeOf(field_type)
        d == IF GetField(defn, key) = NoField
             THEN AddField(defn, Field(key, ft, unit, symbol, CalculatedDescription(key)))
             ELSE defn
    IN  /\ Len(d.fields) <= MaxFields
        /\ defn' = d
        /\ fcall' = FCall("add_data", TRUE, key, <<>>, unit, <<>>)
        /\ UNCHANGED <<overlay, tabVars, grpVars, appVars, cfgVars>>

\* FormatDefinition.from_dict(defn.to_dict())
FmtRoundTrip ==
    /\ fcall' = FCall("round_trip", TRUE, "", <<>>, "", FromDict(ToDict(defn)))
    /\ UNCHANGED <<defn, overlay, tabVars, grpVars, appVars, cfgVars>>

\* merge_format_definitions(defn, overlay)
FmtMerge ==
    /\ fcall' = FCall("merge", TRUE, "", <<>>, "", MergeFormatDefinitions(defn, overlay))
    /\ UNCHANGED <<defn, overlay, tabVars, grpVars, appVars, cfgVars>>

FmtNext ==
    \/ \E f \in FieldPool : FmtAddField(f)
    \/ \E f \in FieldPool : FmtAddOverlayField(f)
    \/ \E m \in MetadataPool : FmtSetMetadata(m)
    \/ \E m \in MetadataPool : FmtSetOverlayMetadata(m)
    \/ FmtRoundTrip
    \/ FmtMerge
    \/ \E key \in {"Field", "Unbound"}, ft \in {"current", "no_such_type"}, u \in {"ampere"} :
           FmtAddCalculatedField(key, ft, u, "I_H")

(***************************************************************************)
(* MagnetData over a data handler (keys, data) and its format definition:  *)
(* validate_format_definition, validate_field_data, the validation summary *)
(* and the coverage score.  A cell is "num" (numeric), "text" (not         *)
(* numeric) or "NaN".  Percentages are exact fractions.                    *)
(***************************************************************************)
MaxKeys == 3        \* most keys of the validated data handler

ValKeyNames == {"Field", "Current", "Extra", "Junk", "Ratio"}

\* the column a reader delivers under each name
ValColumn(name) ==
    CASE name = "Field" -> <<"num", "num", "num">>
      [] name = "Current" -> <<"num", "num", "text">>
      [] name = "Extra" -> <<"num", "text", "text">>
      [] name = "Ratio" -> <<"num", "text", "NaN">>
      [] OTHER -> <<"text", "NaN", "NaN">>

ValFieldPool ==
    FieldPool \cup
    {Field("Current", "CURRENT", "ampere", "", "Coil current"),
     Field("Extra", "INDEX", "dimensionless", "", "Row index"),
     Field("Bz", "MAGNETIC_FIELD", "dimensionless", "", "")}

\* validate_format_definition: the "Duplicate symbol" issues, one per field
\* whose symbol an earlier field already uses
DuplicateSymbolIssues(d) ==
    LET Dup(i) == \E j \in 1..(i - 1) : d.fields[j].symbol = d.fields[i].symbol
    IN  SelectSeq([i \in DOMAIN d.fields |->
                      IF Dup(i) THEN <<"duplicate_symbol", d.fields[i].name>>
                      ELSE <<>>],
                  LAMBDA x : x # <<>>)

\* validate_format_definition: the "Fields missing descriptions" warning
MissingDescriptionWarnings(d) ==
    IF \E i \in DOMAIN d.fields : d.fields[i].description = ""
    THEN << <<"missing_descriptions", "">> >> ELSE <<>>

\* validate_format_definition: the "dimensionless unit but type" warnings;
\* get_unit_object never raises, so the except branch adds no issue
UnusualUnitWarnings(d) ==
    LET Odd(f) == /\ GetUnitObject(f).dim = "dimensionless"
                  /\ f.field_type \notin {"INDEX", "PERCENTAGE", "TIME"}
    IN  SelectSeq([i \in DOMAIN d.fields |->
                      IF Odd(d.fields[i]) THEN <<"dimensionless", d.fields[i].name>>
                      ELSE <<>>],
                  LAMBDA x : x # <<>>)

\* validate_format_definition
ValidateFormatDefinition(d) ==
    LET issues == DuplicateSymbolIssues(d)
    IN  [valid |-> Len(issues) = 0,
         issues |-> issues,
         warnings |-> MissingDescriptionWarnings(d) \o UnusualUnitWarnings(d),
         total_fields |-> Len(d.fields)]

\* data[key].dropna(): the cells of a single column, the complete rows of a
\* repeated label
DropNa(cols) ==
    IF Len(cols) = 1
    THEN SelectSeq(cols[1].vals, LAMBDA c : c # "NaN")
    ELSE SelectSeq([r \in DOMAIN cols[1].vals |->
                       IF \E i \in DOMAIN cols : cols[i].vals[r] = "NaN"
                       THEN "NaN" ELSE "row"],
                   LAMBDA c : c # "NaN")

\* MagnetData.validate_field_data: the status it reports
ValidateFieldData(d, df, key) ==
    LET field == GetField(d, key)
        cols == ColsNamed(df, key)
        values == DropNa(cols)
        numeric == field.field_type # "INDEX"
        \* pd.to_numeric raises TypeError on a DataFrame (repeated label)
        raised == numeric /\ Len(cols) > 1
        invalid == IF numeric /\ ~raised
                   THEN Len(SelectSeq(values, LAMBDA c : c = "text")) ELSE 0
        valid == IF numeric /\ ~raised THEN Len(values) - invalid ELSE Len(values)
        issues == raised \/ invalid > 0
    IN  IF field = NoField THEN "no_field_definition"
        ELSE IF cols = <<>> THEN "error"
        ELSE IF invalid = 0 /\ ~issues THEN "valid"
        ELSE IF invalid < valid THEN "mostly_valid"
        ELSE "invalid"

\* x / total * 100 with the percentages inverted
PercentOfRest(x, total) ==
    IF total > 0 THEN Frac((total - x) * 100, total) ELSE Frac(0, 1)

\* (x / total * 100) if total > 0 else 0
Percent(x, total) ==
    IF total > 0 THEN Frac(x * 100, total) ELSE Frac(0, 1)

\* f"{p:.1f}": the tenths the percentage is displayed as
Format1f(p) == (2 * 10 * p.num + p.den) \div (2 * p.den)

\* MagnetData.get_field_validation_summary: validation_results is a dict,
\* one entry per distinct key
GetFieldValidationSummary(d, df, ks) ==
    LET names == {ks[i] : i \in DOMAIN ks}
        Count(S) == Cardinality({n \in names : ValidateFieldData(d, df, n) \in S})
        total == Cardinality(names)
        undefined == Count({"no_field_definition"})
    IN  [total_fields |-> total,
         valid_fields |-> Count({"valid"}),
         mostly_valid_fields |-> Count({"mostly_valid"}),
         invalid_fields |-> Count({"invalid", "error"}),
         undefined_fields |-> undefined,
         coverage_percent |-> Percent(total - undefined, total),
         quality_percent |-> Percent(Count({"valid", "mostly_valid"}), total)]

\* MagnetData._get_field_coverage: one count per entry of keys
GetFieldCoverage(d, ks) ==
    Percent(Cardinality({i \in DOMAIN ks : GetField(d, ks[i]) # NoField}), Len(ks))

\* a data handler wrapped with the format "demo", no field bound yet
ValInit ==
    /\ keys \in SeqsUpTo(ValKeyNames, MaxKeys)
    /\ data = [i \in DOMAIN keys |-> Column(keys[i], ValColumn(keys[i]))]
    /\ tcall = NoTCall
    /\ defn = NewFormatDefinition("demo")
    /\ overlay = NoDefinition
    /\ fcall = NoFCall

\* format_definition.add_field(field)
ValAddField(f) ==
    /\ Len(AddField(defn, f).fields) <= MaxFields
    /\ defn' = AddField(defn, f)
    /\ fcall' = FCall("add_field", TRUE, f.name, <<>>, "", <<>>)
    /\ UNCHANGED <<overlay, tabVars, grpVars, appVars, cfgVars>>

ValValidateFormatDefinition ==
    /\ fcall' = FCall("validate_format_definition", TRUE, "", <<>>, "",
                      ValidateFormatDefinition(defn))
    /\ UNCHANGED <<defn, overlay, tabVars, grpVars, appVars, cfgVars>>

ValValidateFieldData(i) ==
    /\ fcall' = FCall("validate_field_data", TRUE, keys[i], <<>>, "",
                      ValidateFieldData(defn, data, keys[i]))
    /\ UNCHANGED <<defn, overlay, tabVars, grpVars, appVars, cfgVars>>

ValGetFieldValidationSummary ==
    /\ fcall' = FCall("get_field_validation_summary", TRUE, "", <<>>, "",
                      GetFieldValidationSummary(defn, data, keys))
    /\ UNCHANGED <<defn, overlay, tabVars, grpVars, appVars, cfgVars>>

ValGetFieldCoverage ==
    /\ fcall' = FCall("_get_field_coverage", TRUE, "", <<>>, "",
                      GetFieldCoverage(defn, keys))
    /\ UNCHANGED <<defn, overlay, tabVars, grpVars, appVars, cfgVars>>

ValNext ==
    \/ \E f \in ValFieldPool : ValAddField(f)
    \/ ValValidateFormatDefinition
    \/ \E i \in DOMAIN keys : ValValidateFieldData(i)
    \/ ValGetFieldValidationSummary
    \/ ValGetFieldCoverage

(***************************************************************************)
(* ConfigPaths / ConfigManager.  A directory is the tuple of its path      *)
(* components; a file is [dir, name].  The manager is the process-wide     *)
(* singleton: _config_paths exists as a class attribute (clsPaths) and,    *)
(* once assigned through self, as an instance attribute (instPaths) that   *)
(* hides it.                                                               *)
(***************************************************************************)
DefaultBaseDir == "/pkg/configs"       \* ConfigPaths.DEFAULT_BASE_DIR
EnvDirs == {"/env"}                    \* values of MAGNETRUN_CONFIG_DIR
ExplicitDirs == {"/d"}                 \* arguments of set_base_config_dir
Unset == "unset"

NonePaths == [base_dir |-> "None", formats_dir |-> <<>>, housings_dir |-> <<>>,
              field_definitions_dir |-> <<>>, custom_dirs |-> EmptyDict]

\* ConfigPaths.from_base_dir
FromBaseDir(base_dir) ==
    [base_dir |-> base_dir,
     formats_dir |-> <<base_dir, "formats">>,
     housings_dir |-> <<base_dir, "housings">>,
     field_definitions_dir |-> <<base_dir, "field_definitions">>,
     custom_dirs |-> EmptyDict]

\* ConfigPaths.from_environment
FromEnvironment(e) == FromBaseDir(IF e = Unset THEN DefaultBaseDir ELSE e)

\* ConfigPaths.ensure_directories_exist: the directories it creates
EnsuredDirs(paths) ==
    {<<paths.base_dir>>, paths.formats_dir, paths.housings_dir,
     paths.field_definitions_dir}
    \cup {paths.custom_dirs[c] : c \in DOMAIN paths.custom_dirs}

\* the value of self._config_paths: the instance attribute when there is
\* one, else the class attribute
LookupPaths(cls, inst) == IF inst # NonePaths THEN inst ELSE cls

\* ConfigManager.config_paths: the paths the property returns
ConfigPathsOf(cls, inst, e) ==
    IF LookupPaths(cls, inst) = NonePaths
    THEN FromEnvironment(e)
    ELSE LookupPaths(cls, inst)

\* ConfigManager.config_paths: the instance attribute after the property ran
InstAfterAccess(cls, inst, e) ==
    IF LookupPaths(cls, inst) = NonePaths THEN FromEnvironment(e) ELSE inst

\* ConfigManager.config_paths: the directories after the property ran
DirsAfterAccess(cls, inst, e, dirs) ==
    IF LookupPaths(cls, inst) = NonePaths
    THEN dirs \cup EnsuredDirs(FromEnvironment(e))
    ELSE dirs

\* str.lower() on the names the model draws
Lower(n) == IF n = "M9" THEN "m9" ELSE n

ConfigFile(dir, stem) == [dir |-> dir, name |-> stem]    \* dir / f"{stem}.json"

KnownTypes == {"format", "housing", "field_definition"}

\* get_format_config_path / get_housing_config_path / get_field_definition_path
\* / get_custom_config_path, as load_config and save_config select them
ConfigPathFor(paths, config_type, config_name) ==
    CASE config_type = "format" -> ConfigFile(paths.formats_dir, config_name)
      [] config_type = "housing" -> ConfigFile(paths.housings_dir, Lower(config_name))
      [] config_type = "field_definition" ->
             ConfigFile(paths.field_definitions_dir, config_name)
      [] OTHER -> ConfigFile(paths.custom_dirs[config_type], config_name)

TypeKnown(paths, config_type) ==
    config_type \in KnownTypes \/ config_type \in DOMAIN paths.custom_dirs

\* f"{config_type}:{config_name}"
CacheKey(config_type, config_name) == <<config_type, config_name>>

DictSet(d, k, v) == [x \in DOMAIN d \cup {k} |-> IF x = k THEN v ELSE d[x]]
DictDel(d, k) == [x \in DOMAIN d \ {k} |-> d[x]]

Malformed == "not json"
NoneData == "None"

\* the directory and its ancestors (mkdir(parents=True))
WithParents(dir) == {SubSeq(dir, 1, n) : n \in 1..Len(dir)}

ConfigTargets == {<<"housing", "M9">>, <<"bogus", "x">>}
ConfigData == {"D1", "D2"}

\* the last call: its result, the directory it read or wrote, and the base
\* directory last set by set_base_config_dir ("none" before, and after a
\* plain initialize())
CCall(op, arg, ret, touched, explicit) ==
    [op |-> op, arg |-> arg, ret |-> ret, touched |-> touched, explicit |-> explicit]

\* the arguments of a call on a configuration: type, name, use_cache
CArg(config_type, config_name, use_cache) ==
    [type |-> config_type, name |-> config_name, use_cache |-> use_cache]

NoCArg == CArg("", "", TRUE)

NoCCall == CCall("init", NoCArg, NoneData, <<>>, "none")

\* the last registry call: its name argument, its result, and the step of
\* the lookup that answered
RCall(op, name, ret, via, pre) ==
    [op |-> op, name |-> name, ret |-> ret, via |-> via, pre |-> pre]

NoRCall == RCall("init", "", NoneData, "",
                 [defs |-> EmptyDict, handlers |-> EmptyDict])

RegIdle == regDefs = EmptyDict /\ regHandlers = EmptyDict /\ rcall = NoRCall

CfgIdle ==
    /\ env = Unset /\ envOver = Unset
    /\ clsPaths = NonePaths /\ instPaths = NonePaths
    /\ cache = EmptyDict /\ disk = [dirs |-> {}, files |-> EmptyDict]
    /\ ccall = NoCCall
    /\ RegIdle

\* the module is imported: config_manager = ConfigManager(); nothing resolved
CfgInit ==
    /\ env \in {Unset} \cup EnvDirs
    /\ envOver = Unset
    /\ clsPaths = NonePaths
    /\ instPaths = NonePaths
    /\ cache = EmptyDict
    /\ disk = [dirs |-> {}, files |-> EmptyDict]
    /\ ccall = NoCCall

\* os.environ["MAGNETRUN_CONFIG_DIR"] is set or deleted
SetEnv(e) ==
    /\ e # env
    /\ env' = e
    /\ UNCHANGED envOver
    /\ ccall' = CCall("setenv", NoCArg, NoneData, <<>>, ccall.explicit)
    /\ UNCHANGED <<clsPaths, instPaths, cache, disk, tabVars, grpVars, appVars, fldVars, regVars>>

\* ConfigManager.initialize(config_paths): the class attribute is set, the
\* cache cleared, the directories of config_paths created
InitializeWith(paths, op, arg, explicit) ==
    /\ clsPaths' = paths
    /\ cache' = EmptyDict
    /\ disk' = [disk EXCEPT !.dirs = @ \cup EnsuredDirs(paths)]
    /\ ccall' = CCall(op, arg, NoneData, <<>>, explicit)
    /\ UNCHANGED <<env, envOver, instPaths, tabVars, grpVars, appVars, fldVars, regVars>>

\* ConfigManager.initialize()
Initialize == InitializeWith(FromEnvironment(env), "initialize", NoCArg, "none")

\* ConfigManager.set_base_config_dir(base_dir) / set_config_base_dir(base_dir)
SetBaseConfigDir(base_dir) ==
    InitializeWith(FromBaseDir(base_dir), "set_base_config_dir", NoCArg, base_dir)

\* config_manager.config_paths read by a caller
AccessConfigPaths ==
    /\ instPaths' = InstAfterAccess(clsPaths, instPaths, env)
    /\ disk' = [disk EXCEPT !.dirs = DirsAfterAccess(clsPaths, instPaths, env, @)]
    /\ ccall' = CCall("config_paths", NoCArg, ConfigPathsOf(clsPaths, instPaths, env).base_dir,
                      <<>>, ccall.explicit)
    /\ UNCHANGED <<env, envOver, clsPaths, cache, tabVars, grpVars, appVars, fldVars, regVars>>

\* json.load on the content of a file
JsonLoad(content) ==
    IF content = Malformed
    THEN [raised |-> "JSONDecodeError", value |-> NoneData]
    ELSE [raised |-> "", value |-> content]

\* load_config without its except clause
LoadCaughtNothing(r) == IF r.raised # "" THEN r.raised ELSE r.value

\* load_config's "except Exception: warn; return None"
LoadCaught(r) == IF r.raised # "" THEN NoneData ELSE r.value

\* ConfigManager.load_config run on the cache c0; op names the caller
LoadConfigFrom(c0, op, config_type, config_name, use_cache) ==
    LET key == CacheKey(config_type, config_name)
        arg == CArg(config_type, config_name, use_cache)
        paths == ConfigPathsOf(clsPaths, instPaths, env)
        path == ConfigPathFor(paths, config_type, config_name)
    IN  IF use_cache /\ key \in DOMAIN c0
        THEN /\ ccall' = CCall(op, arg, c0[key], <<>>, ccall.explicit)
             /\ cache' = c0
             /\ UNCHANGED <<env, envOver, clsPaths, instPaths, disk,
                            tabVars, grpVars, appVars, fldVars>>
        ELSE /\ instPaths' = InstAfterAccess(clsPaths, instPaths, env)
             /\ disk' = [disk EXCEPT !.dirs = DirsAfterAccess(clsPaths, instPaths, env, @)]
             /\ IF ~TypeKnown(paths, config_type)
                THEN /\ ccall' = CCall(op, arg, NoneData, <<>>, ccall.explicit)
                     /\ cache' = c0
                ELSE IF path \notin DOMAIN disk.files
                THEN /\ ccall' = CCall(op, arg, NoneData, path.dir, ccall.explicit)
                     /\ cache' = c0
                ELSE LET r == JsonLoad(disk.files[path])
                     IN  /\ ccall' = CCall(op, arg, LoadCaught(r), path.dir,
                                           ccall.explicit)
                         /\ cache' = IF use_cache /\ r.raised = ""
                                     THEN DictSet(c0, key, r.value)
                                     ELSE c0
             /\ UNCHANGED <<env, envOver, clsPaths, tabVars, grpVars, appVars, fldVars>>

\* ConfigManager.load_config
LoadConfig(config_type, config_name, use_cache) ==
    /\ LoadConfigFrom(cache, "load_config", config_type, config_name, use_cache)
    /\ UNCHANGED regVars

\* reload_config evicting every entry instead of its own
ReloadConfigEvictingAll(config_type, config_name) ==
    /\ LoadConfigFrom(EmptyDict, "reload_config", config_type, config_name, TRUE)
    /\ UNCHANGED regVars

\* ConfigManager.reload_config: the key is evicted, then load_config runs
ReloadConfig(config_type, config_name) ==
    /\ LoadConfigFrom(DictDel(cache, CacheKey(config_type, config_name)),
                      "reload_config", config_type, config_name, TRUE)
    /\ UNCHANGED regVars

\* config_data json.dump cannot serialise (a set, a Path, an array inside)
Unserializable == "unserializable"

\* what open(path, 'w') and json.dump leave in the file
JsonDump(config_data) ==
    IF config_data = Unserializable THEN Malformed ELSE config_data

\* ConfigManager.save_config
SaveConfig(config_type, config_name, config_data) ==
    LET key == CacheKey(config_type, config_name)
        arg == CArg(config_type, config_name, TRUE)
        paths == ConfigPathsOf(clsPaths, instPaths, env)
        path == ConfigPathFor(paths, config_type, config_name)
        dirs == DirsAfterAccess(clsPaths, instPaths, env, disk.dirs)
    IN  /\ instPaths' = InstAfterAccess(clsPaths, instPaths, env)
        /\ IF ~TypeKnown(paths, config_type)
           THEN /\ disk' = [disk EXCEPT !.dirs = dirs]
                /\ cache' = cache
                /\ ccall' = CCall("save_config", arg, FALSE, <<>>, ccall.explicit)
           ELSE /\ disk' = [dirs |-> dirs \cup WithParents(path.dir),
                            files |-> DictSet(disk.files, path, JsonDump(config_data))]
                /\ cache' = IF config_data = Unserializable THEN cache
                            ELSE DictSet(cache, key, config_data)
                /\ ccall' = CCall("save_config", arg, config_data # Unserializable,
                                  path.dir, ccall.explicit)
        /\ UNCHANGED <<env, envOver, clsPaths, tabVars, grpVars, appVars, fldVars, regVars>>

\* a configuration file is written or deleted from outside the program
ExternalEdit(path, content) ==
    /\ disk' = IF content = NoneData
               THEN [disk EXCEPT !.files = DictDel(@, path)]
               ELSE [dirs |-> disk.dirs \cup WithParents(path.dir),
                     files |-> DictSet(disk.files, path, content)]
    /\ disk'.files # disk.files
    /\ ccall' = CCall("external_edit", NoCArg, NoneData, <<>>, ccall.explicit)
    /\ UNCHANGED <<env, envOver, clsPaths, instPaths, cache, tabVars, grpVars, appVars, fldVars, regVars>>

\* ConfigManager.list_configs
ListConfigs(config_type) ==
    LET paths == ConfigPathsOf(clsPaths, instPaths, env)
        dir == ConfigPathFor(paths, config_type, "").dir
    IN  /\ instPaths' = InstAfterAccess(clsPaths, instPaths, env)
        /\ disk' = [disk EXCEPT !.dirs = DirsAfterAccess(clsPaths, instPaths, env, @)]
        /\ IF ~TypeKnown(paths, config_type)
           THEN ccall' = CCall("list_configs", CArg(config_type, "", TRUE), {}, <<>>, ccall.explicit)
           ELSE ccall' = CCall("list_configs", CArg(config_type, "", TRUE),
                               IF dir \in disk'.dirs
                               THEN {p.name : p \in {q \in DOMAIN disk.files : q.dir = dir}}
                               ELSE {},
                               dir, ccall.explicit)
        /\ UNCHANGED <<env, envOver, clsPaths, cache, tabVars, grpVars, appVars, fldVars, regVars>>

\* ConfigManager.clear_cache
ClearCache ==
    /\ cache' = EmptyDict
    /\ ccall' = CCall("clear_cache", NoCArg, NoneData, <<>>, ccall.explicit)
    /\ UNCHANGED <<env, envOver, clsPaths, instPaths, disk, tabVars, grpVars, appVars, fldVars, regVars>>

CfgNext ==
    \/ \E e \in {Unset} \cup EnvDirs : SetEnv(e)
    \/ Initialize
    \/ \E d \in ExplicitDirs : SetBaseConfigDir(d)
    \/ AccessConfigPaths
    \/ \E t \in ConfigTargets, u \in BOOLEAN : LoadConfig(t[1], t[2], u)
    \/ \E t \in ConfigTargets, c \in ConfigData : SaveConfig(t[1], t[2], c)
    \/ \E t \in ConfigTargets : ListConfigs(t[1])
    \/ ClearCache

\* setup_config_from_env: the paths it builds when MAGNETRUN_CONFIG_DIR is set
SetupPaths(e, over) ==
    IF over = Unset THEN FromBaseDir(e)
    ELSE [FromBaseDir(e) EXCEPT !.formats_dir = <<over>>]

\* setup_config_from_env
SetupConfigFromEnv ==
    IF env # Unset
    THEN InitializeWith(SetupPaths(env, envOver), "setup_config_from_env", NoCArg, "none")
    ELSE InitializeWith(FromEnvironment(env), "setup_config_from_env", NoCArg, "none")

OverrideDirs == {"/f"}                 \* values of MAGNETRUN_FORMATS_DIR

\* the process starts with its environment set; nothing resolved yet
EnvInit ==
    /\ env \in {Unset} \cup EnvDirs
    /\ envOver \in {Unset} \cup OverrideDirs
    /\ clsPaths = NonePaths
    /\ instPaths = NonePaths
    /\ cache = EmptyDict
    /\ disk = [dirs |-> {}, files |-> EmptyDict]
    /\ ccall = NoCCall

\* the manager resolving its paths from an environment that stays as it is
EnvNext ==
    \/ AccessConfigPaths
    \/ Initialize
    \/ SetupConfigFromEnv
    \/ \E u \in BOOLEAN : LoadConfig("format", "pupitre", u)
    \/ \E c \in ConfigData : SaveConfig("format", "pupitre", c)
    \/ ListConfigs("format")

\* the files the program's calls address under the current paths
StoreTargets == ConfigTargets \cup {<<"format", "pupitre">>}

TargetFiles ==
    {ConfigPathFor(ConfigPathsOf(clsPaths, instPaths, env), t[1], t[2]) :
        t \in {u \in StoreTargets : u[1] \in KnownTypes}}

EditContents == {"D2", Malformed, NoneData}

\* the manager at work on its files while they are also edited from outside
StoreNext ==
    \/ \E t \in StoreTargets, u \in BOOLEAN : LoadConfig(t[1], t[2], u)
    \/ \E t \in StoreTargets, c \in ConfigData \cup {Unserializable} :
           SaveConfig(t[1], t[2], c)
    \/ \E t \in StoreTargets : ReloadConfig(t[1], t[2])
    \/ ClearCache
    \/ \E p \in TargetFiles, c \in EditContents : ExternalEdit(p, c)

CustomDirs == {<<"/x">>, <<"/y">>}     \* arguments of add_custom_dir

\* config_manager.config_paths.add_custom_dir(name, path): the property
\* resolves the paths object, whose custom_dirs dict is then written
AddCustomDir(name, path) ==
    LET paths == ConfigPathsOf(clsPaths, instPaths, env)
        added == [paths EXCEPT !.custom_dirs = DictSet(@, name, path)]
    IN  /\ IF instPaths # NonePaths \/ clsPaths = NonePaths
           THEN instPaths' = added /\ clsPaths' = clsPaths
           ELSE clsPaths' = added /\ instPaths' = instPaths
        /\ disk' = [disk EXCEPT !.dirs = DirsAfterAccess(clsPaths, instPaths, env, @)]
        /\ ccall' = CCall("add_custom_dir", CArg(name, "", TRUE), NoneData, <<>>,
                          ccall.explicit)
        /\ UNCHANGED <<env, envOver, cache, tabVars, grpVars, appVars, fldVars, regVars>>

CohTargets == ConfigTargets \cup {<<"housing", "m9">>}

\* configuration files changed only through the manager
CohNext ==
    \/ \E t \in CohTargets, u \in BOOLEAN : LoadConfig(t[1], t[2], u)
    \/ \E t \in CohTargets, c \in ConfigData \cup {Unserializable} :
           SaveConfig(t[1], t[2], c)
    \/ \E t \in CohTargets : ReloadConfig(t[1], t[2])
    \/ ClearCache
    \/ \E p \in CustomDirs : AddCustomDir("bogus", p)
    \/ \E d \in ExplicitDirs : SetBaseConfigDir(d)

(***************************************************************************)
(* formats.registry.FormatRegistry and BaseData._load_format_definition     *)
(***************************************************************************)
BuiltInFormats == {"pupitre", "pigbrother", "bprofile"}

\* definition dicts as files and caches hold them: a format name and a
\* revision of its fields
DefDicts == {"pupitre#1", "pupitre#2", "custom#1"}

\* data["format_name"]
FormatNameOf(d) ==
    CASE d \in {"pupitre#1", "pupitre#2"} -> "pupitre"
      [] d = "custom#1" -> "custom"
      [] OTHER -> ""

\* FormatDefinition.from_dict: KeyError on a dict that is not a definition
RegFromDict(content) ==
    IF content \in DefDicts
    THEN [raised |-> "", value |-> content]
    ELSE [raised |-> "KeyError", value |-> NoneData]

\* FormatDefinition.load_from_file: json.load, then from_dict
LoadFromFile(content) ==
    IF JsonLoad(content).raised # "" THEN JsonLoad(content)
    ELSE RegFromDict(JsonLoad(content).value)

\* FormatRegistry.configs_dir: Path(__file__).parent / "configs"
RegConfigsDir == <<DefaultBaseDir>>

\* configs_dir.glob("*.json")
RegFiles(d) == {p \in DOMAIN d.files : p.dir = RegConfigsDir}

\* the definitions the files of configs_dir give for a format name
Loadable(d, n) ==
    {d.files[p] : p \in {q \in RegFiles(d) :
        LoadFromFile(d.files[q]).raised = "" /\ FormatNameOf(d.files[q]) = n}}

LoadableNames(d) ==
    {FormatNameOf(d.files[p]) : p \in {q \in RegFiles(d) :
        LoadFromFile(d.files[q]).raised = ""}}

\* FormatRegistry._load_format_definitions: the tables it can leave, one
\* per order in which glob yields two files of the same format name
LoadFormatDefinitions(defs0, d) ==
    IF RegConfigsDir \notin d.dirs THEN {defs0}
    ELSE {DictUpdate(defs0, f) :
            f \in {g \in [LoadableNames(d) -> DefDicts] :
                      \A n \in LoadableNames(d) : g[n] \in Loadable(d, n)}}

\* FormatRegistry._register_built_in_formats
BuiltInHandlers ==
    [n \in BuiltInFormats |->
        CASE n = "pupitre" -> "PupitreData"
          [] n = "pigbrother" -> "PigbrotherData"
          [] OTHER -> "BprofileData"]

\* dict.get(name)
DictGet(d, k) == IF k \in DOMAIN d THEN d[k] ELSE NoneData

RegPre == [defs |-> regDefs, handlers |-> regHandlers]
NoPre == [defs |-> EmptyDict, handlers |-> EmptyDict]

\* format_registry = FormatRegistry() at import, over the files then present
RegFilesAtImport ==
    {EmptyDict,
     [p \in {ConfigFile(RegConfigsDir, "pupitre")} |-> "pupitre#1"]}

RegInit ==
    /\ env = Unset /\ envOver = Unset
    /\ clsPaths = NonePaths /\ instPaths = NonePaths
    /\ cache = EmptyDict /\ ccall = NoCCall
    /\ \E files \in RegFilesAtImport :
          disk = [dirs |-> IF files = EmptyDict THEN {} ELSE {RegConfigsDir},
                  files |-> files]
    /\ regDefs \in LoadFormatDefinitions(EmptyDict, disk)
    /\ regHandlers = BuiltInHandlers
    /\ rcall = NoRCall

\* FormatRegistry.register_format
RegisterFormat(name, data_handler_class) ==
    /\ regHandlers' = DictSet(regHandlers, name, data_handler_class)
    /\ rcall' = RCall("register_format", name, NoneData, "", NoPre)
    /\ UNCHANGED <<regDefs, env, envOver, clsPaths, instPaths, cache, disk, ccall,
                   tabVars, grpVars, appVars, fldVars>>

\* FormatRegistry.register_format_definition
RegisterFormatDefinition(d) ==
    /\ regDefs' = DictSet(regDefs, FormatNameOf(d), d)
    /\ rcall' = RCall("register_format_definition", FormatNameOf(d), d, "", NoPre)
    /\ UNCHANGED <<regHandlers, env, envOver, clsPaths, instPaths, cache, disk, ccall,
                   tabVars, grpVars, appVars, fldVars>>

\* FormatRegistry.get_format_definition
GetFormatDefinition(name) ==
    /\ rcall' = RCall("get_format_definition", name, DictGet(regDefs, name),
                      "registry", NoPre)
    /\ UNCHANGED <<regDefs, regHandlers, env, envOver, clsPaths, instPaths, cache, disk,
                   ccall, tabVars, grpVars, appVars, fldVars>>

\* reload that keeps what is cached and only adds what the files give
ReloadKeepingCached(defs0, d) == LoadFormatDefinitions(defs0, d)

\* FormatRegistry.reload_format_definitions: clear(), then load
ReloadResult(defs0, d) == LoadFormatDefinitions(EmptyDict, d)

ReloadFormatDefinitions ==
    /\ regDefs' \in ReloadResult(regDefs, disk)
    /\ rcall' = RCall("reload_format_definitions", "", NoneData, "", RegPre)
    /\ UNCHANGED <<regHandlers, env, envOver, clsPaths, instPaths, cache, disk, ccall,
                   tabVars, grpVars, appVars, fldVars>>

\* BaseData._load_format_definition: load_config("format", format_type),
\* from_dict on what it returns, else format_registry.get_format_definition
LoadFormatDefinition(format_type) ==
    /\ LoadConfigFrom(cache, "load_config", "format", format_type, TRUE)
    /\ rcall' =
          IF ccall'.ret # NoneData /\ RegFromDict(ccall'.ret).raised = ""
          THEN RCall("load_format_definition", format_type, ccall'.ret,
                     IF CacheKey("format", format_type) \in DOMAIN cache
                     THEN "cache" ELSE "store", NoPre)
          ELSE RCall("load_format_definition", format_type,
                     DictGet(regDefs, format_type),
                     IF format_type \in DOMAIN regDefs THEN "registry" ELSE "none",
                     NoPre)
    /\ UNCHANGED <<regDefs, regHandlers>>

RegNames == {"pupitre", "custom"}

\* files of configs_dir written or deleted from outside: stem, content
RegEdits ==
    {<<"pupitre", "pupitre#2">>, <<"pupitre", Malformed>>, <<"pupitre", NoneData>>,
     <<"other", "pupitre#1">>, <<"other", "custom#1">>, <<"other", NoneData>>}

RegNext ==
    \/ RegisterFormat("custom", "CustomData")
    \/ \E d \in DefDicts : RegisterFormatDefinition(d)
    \/ \E n \in RegNames : GetFormatDefinition(n)
    \/ ReloadFormatDefinitions
    \/ \E n \in RegNames : LoadFormatDefinition(n)
    \/ \E c \in {"pupitre#2", "D1"} : SaveConfig("format", "pupitre", c)
    \/ ClearCache
    \/ \E e \in RegEdits : ExternalEdit(ConfigFile(RegConfigsDir, e[1]), e[2])

(***************************************************************************)
(* MagnetRun over a tabular owner, and the housing configurations          *)
(***************************************************************************)
RunCols == <<"Field", "Idcct1", "Idcct2", "Idcct3", "Idcct4">>

HousingNames == {"M9", "m9", "M10"}

\* str.upper on the housing names drawn
Upper(n) == IF n = "m9" THEN "M9" ELSE n

\* the attributes a HousingConfig object has: its dataclass fields and the
\* two set by __post_init__
HousingAttrs ==
    {"name", "config_data", "format_registry", "msite_object", "voltage_tap_locations"}

HousingConfig(name) ==
    [present |-> TRUE, name |-> name, attrs |-> [a \in HousingAttrs |-> <<>>]]

NoHousingConfig ==
    [present |-> FALSE, name |-> "", attrs |-> [a \in HousingAttrs |-> <<>>]]

\* HousingConfigManager.get_config / get_housing_config
GetHousingConfig(configs, housing_name) ==
    IF Upper(housing_name) \in configs
    THEN HousingConfig(Upper(housing_name))
    ELSE NoHousingConfig

\* attribute access on an object: AttributeError for a name it does not have
GetAttr(obj, a) ==
    IF a \in DOMAIN obj.attrs
    THEN [raised |-> "none", value |-> obj.attrs[a]]
    ELSE [raised |-> "AttributeError", value |-> <<>>]

\* get_ih_formula / get_ib_formula take data_format; prepare_data passes
\* nothing, so the call raises before the method body runs
CallFormula(nargs) ==
    IF nargs = 1 THEN [raised |-> "none"] ELSE [raised |-> "TypeError"]

\* prepare_data, its last part: remove the listed channels that are keys
PrepareRemove(df, ks, cfg) ==
    LET rc == GetAttr(cfg, "remove_channels")
    IN  IF rc.raised # "none"
        THEN [raised |-> rc.raised, df |-> df, keys |-> ks]
        ELSE LET Existing(ch) == InSeq(ch, ks)
                 existing_channels == SelectSeq(rc.value, Existing)
             IN  IF rc.value # <<>> /\ existing_channels # <<>>
                 THEN RemoveDataResult(df, ks, existing_channels)
                 ELSE [raised |-> "none", df |-> df, keys |-> ks]

\* prepare_data, its middle part: rename by field_mappings, then remove
PrepareRename(df, ks, cfg) ==
    LET fm == GetAttr(cfg, "field_mappings")
    IN  IF fm.raised # "none"
        THEN [raised |-> fm.raised, df |-> df, keys |-> ks]
        ELSE IF fm.value # <<>>
        THEN LET r == RenameDataResult(df, ks, fm.value)
             IN  IF r.raised # "none" THEN r ELSE PrepareRemove(r.df, r.keys, cfg)
        ELSE PrepareRemove(df, ks, cfg)

\* prepare_data from the IB_ref step on
PrepareIb(df, ks, cfg) ==
    LET ib == GetAttr(cfg, "ib_ref_channels")
    IN  IF ib.raised # "none"
        THEN [raised |-> ib.raised, df |-> df, keys |-> ks]
        ELSE IF ib.value # <<>>
        THEN [raised |-> CallFormula(0).raised, df |-> df, keys |-> ks]
        ELSE PrepareRename(df, ks, cfg)

\* MagnetRun.prepare_data: nothing without data or housing configuration;
\* otherwise IH_ref, IB_ref, rename, remove, each read from the
\* configuration object's attributes
PrepareDataResult(df, ks, magnet_data, cfg) ==
    IF magnet_data = "None" \/ ~cfg.present
    THEN [raised |-> "none", df |-> df, keys |-> ks]
    ELSE LET ih == GetAttr(cfg, "ih_ref_channels")
         IN  IF ih.raised # "none"
             THEN [raised |-> ih.raised, df |-> df, keys |-> ks]
             ELSE IF ih.value # <<>>
             THEN [raised |-> CallFormula(0).raised, df |-> df, keys |-> ks]
             ELSE PrepareIb(df, ks, cfg)

NoRun ==
    [housing |-> "", magnet_data |-> "None", config |-> NoHousingConfig,
     op |-> "init", raised |-> "none", preKeys |-> <<>>]

NoBatch ==
    [cmd |-> "", files |-> <<>>, i |-> 0, attempted |-> {}, reported |-> <<>>,
     pc |-> "idle"]

NoHCall == [op |-> "init", category |-> "", has_formula |-> FALSE,
            computed |-> {}, source |-> {}]

HsgIdle == hcfg = <<>> /\ hcall = NoHCall

NoHandler == [definition |-> NoDefinition, same_object |-> FALSE,
              metadata |-> EmptyDict, supplied |-> EmptyDict]

NoMCall == [op |-> "init", key |-> "", raised |-> "none", ret |-> <<>>,
            pre |-> NoHandler]

MdIdle == handler = NoHandler /\ mcall = NoMCall

AppIdle == housings = {} /\ run = NoRun /\ batch = NoBatch /\ HsgIdle /\ MdIdle

\* a table read from a file holding some of the channels; no housing
\* configuration file ships with the package, so none is loaded at import
RunInit ==
    /\ \E S \in SUBSET {RunCols[i] : i \in DOMAIN RunCols} :
           LET In(c) == c \in S
               cols == SelectSeq(RunCols, In)
           IN  data = [i \in DOMAIN cols |-> Column(cols[i], [r \in 1..NRows |-> 1])]
    /\ keys = Columns(data)
    /\ tcall = NoTCall
    /\ AppIdle

\* HousingConfigManager.create_new_config / create_housing_config
CreateHousingConfig(housing_name) ==
    /\ housings' = housings \cup {Upper(housing_name)}
    /\ UNCHANGED <<run, batch, hsgVars, mdVars, tabVars, grpVars, fldVars, cfgVars>>

\* MagnetRun.__init__
NewMagnetRun(housing, magnet_data) ==
    /\ run' = [housing |-> housing, magnet_data |-> magnet_data,
               config |-> GetHousingConfig(housings, housing),
               op |-> "new", raised |-> "none", preKeys |-> keys]
    /\ UNCHANGED <<housings, batch, hsgVars, mdVars, tabVars, grpVars, fldVars, cfgVars>>

PrepareData ==
    /\ run.op # "init"
    /\ LET r == PrepareDataResult(data, keys, run.magnet_data, run.config)
       IN  /\ data' = r.df
           /\ keys' = r.keys
           /\ run' = [run EXCEPT !.op = "prepare_data", !.raised = r.raised,
                                 !.preKeys = keys]
    /\ UNCHANGED <<tcall, housings, batch, hsgVars, mdVars, grpVars, fldVars, cfgVars>>

RunNext ==
    \/ \E n \in HousingNames : CreateHousingConfig(n)
    \/ \E h \in HousingNames, m \in {"MagnetData", "None"} : NewMagnetRun(h, m)
    \/ PrepareData

(***************************************************************************)
(* cli.etl: the commands that take several input files                     *)
(***************************************************************************)
MaxFiles == 3       \* most input files of one command

EtlCommands == {"transform", "migrate", "validate", "merge"}

\* what an input file does to the command: nothing, an exception out of
\* load_magnet_data, an exception out of the work done on the loaded data
FileOutcomes == {"ok", "load_raises", "process_raises"}

FileLists == SeqsUpTo(FileOutcomes, MaxFiles) \ {<<>>}

NoFile == 0

\* handle_error: one line on stderr, naming the file only when it is given
HandleError(reported, file_path) == Append(reported, file_path)

\* the command starts: click hands it the files in argument order
Invoke(cmd, files) ==
    /\ batch.pc \in {"idle", "done"}
    /\ batch' = [cmd |-> cmd, files |-> files, i |-> 1, attempted |-> {},
                 reported |-> <<>>, pc |-> "loop"]
    /\ UNCHANGED <<housings, run, hsgVars, mdVars, tabVars, grpVars, fldVars, cfgVars>>

\* one turn of "for file_path in files: try: ... except Exception as e:
\* handle_error(e, debug, file_path)"
PerFileTurn(cmd) ==
    /\ batch.cmd = cmd
    /\ batch.pc = "loop"
    /\ batch.i <= Len(batch.files)
    /\ batch' = [batch EXCEPT
                   !.attempted = @ \cup {batch.i},
                   !.reported = IF batch.files[batch.i] = "ok" THEN @
                                ELSE HandleError(@, batch.i),
                   !.i = @ + 1,
                   !.pc = IF batch.i = Len(batch.files) THEN "done" ELSE "loop"]
    /\ UNCHANGED <<housings, run, hsgVars, mdVars, tabVars, grpVars, fldVars, cfgVars>>

TransformFile == PerFileTurn("transform")

MigrateFile == PerFileTurn("migrate")

ValidateFile == PerFileTurn("validate")

\* merge, one turn of its loading loop: the loop sits inside the command's
\* only try block, so an exception leaves the loop for the except clause,
\* where handle_error is called without a file
MergeLoadFile ==
    /\ batch.cmd = "merge"
    /\ batch.pc = "loop"
    /\ batch.i <= Len(batch.files)
    /\ batch' = IF batch.files[batch.i] = "load_raises"
                THEN [batch EXCEPT !.attempted = @ \cup {batch.i},
                                   !.reported = HandleError(@, NoFile),
                                   !.pc = "done"]
                ELSE [batch EXCEPT !.attempted = @ \cup {batch.i},
                                   !.i = @ + 1,
                                   !.pc = IF batch.i = Len(batch.files)
                                          THEN "merging" ELSE "loop"]
    /\ UNCHANGED <<housings, run, hsgVars, mdVars, tabVars, grpVars, fldVars, cfgVars>>

\* merge, after the loop: _merge_datasets and _save_merged_data, inside the
\* same try block
MergeDatasets ==
    /\ batch.cmd = "merge"
    /\ batch.pc = "merging"
    /\ batch' = IF \E i \in DOMAIN batch.files : batch.files[i] = "process_raises"
                THEN [batch EXCEPT !.reported = HandleError(@, NoFile), !.pc = "done"]
                ELSE [batch EXCEPT !.pc = "done"]
    /\ UNCHANGED <<housings, run, hsgVars, mdVars, tabVars, grpVars, fldVars, cfgVars>>

EtlInit == AppIdle

EtlNext ==
    \/ \E cmd \in EtlCommands, files \in FileLists : Invoke(cmd, files)
    \/ TransformFile
    \/ MigrateFile
    \/ ValidateFile
    \/ MergeLoadFile
    \/ MergeDatasets

(***************************************************************************)
(* MagnetData over a PandasBasedData handler.  defn is MagnetData's        *)
(* _format_def; handler.definition is the handler's own definition, loaded *)
(* by BaseData._load_format_definition, and handler.same_object tells      *)
(* whether the two are one object.  handler.metadata is the handler's      *)
(* metadata dict and handler.supplied the dict the caller constructed the  *)
(* handler with.                                                           *)
(***************************************************************************)
SuppliedMetadata == {EmptyDict, [k \in {"source"} |-> <<"file">>]}

\* self.metadata = metadata or {}: a non-empty dict is kept as it is, the
\* same object; an empty one is replaced by a new dict
IsSupplied(h) == h.supplied # EmptyDict

\* a write into self.metadata reaches the caller's dict when they are one
WithMetadata(h, m) ==
    [h EXCEPT !.metadata = m, !.supplied = IF IsSupplied(h) THEN m ELSE @]

\* the definition of the format "pupitre" as the registry and the format's
\* configuration file hold it
PupitreDefinition ==
    AddField(NewFormatDefinition("pupitre"),
             Field("a", "INDEX", "dimensionless", "a", "Row index"))

\* a write into _format_def reaches handler.definition when they are one
WithFormatDef(h, d) == IF h.same_object THEN [h EXCEPT !.definition = d] ELSE h

MCall(op, key, raised, ret) ==
    [op |-> op, key |-> key, raised |-> raised, ret |-> ret, pre |-> handler]

\* BaseData.__init__ and MagnetData.__init__: _load_format_definition reads
\* the definition from the format's configuration file (from_dict builds a
\* new object) or falls back to the registry's object, which
\* MagnetData._format_def is too when it was given that registry
MdInit ==
    /\ data = <<Column("a", Zeros(NRows)), Column("b", Zeros(NRows))>>
    /\ keys = Columns(data)
    /\ tcall = NoTCall
    /\ defn = PupitreDefinition
    /\ overlay = NoDefinition
    /\ fcall = NoFCall
    /\ \E same \in BOOLEAN, supplied \in SuppliedMetadata :
           handler = [definition |-> PupitreDefinition, same_object |-> same,
                      metadata |-> supplied, supplied |-> supplied]
    /\ mcall = NoMCall

\* the data_input arguments drawn for add_data: a list that fits the table,
\* one that does not, and an unsupported type
MdInputs ==
    {Literal("list", Zeros(NRows), 1), Literal("list", Zeros(NRows + 1), 1), Unsupported}

\* MagnetData.add_data: the handler adds the column; a key without a field
\* in _format_def gets one
MdAddData(key, input, field_type, unit, symbol) ==
    LET r == AddDataResult(data, keys, key, input)
        ft == IF FieldTypeOf(field_type) = "ValueError" THEN "INDEX"
              ELSE FieldTypeOf(field_type)
        d == IF r.raised = "none" /\ GetField(defn, key) = NoField
             THEN AddField(defn, Field(key, ft, unit, symbol, CalculatedDescription(key)))
             ELSE defn
    IN  /\ Len(r.df) <= MaxCols
        /\ data' = r.df
        /\ keys' = r.keys
        /\ defn' = d
        /\ handler' = WithFormatDef(handler, d)
        /\ mcall' = MCall("add_data", key, r.raised, <<>>)
        /\ UNCHANGED <<tcall, overlay, fcall, housings, run, batch, hsgVars,
                       grpVars, cfgVars>>

\* MagnetData.remove_data
MdRemoveData(klist) ==
    LET r == RemoveDataResult(data, keys, klist)
    IN  /\ data' = r.df
        /\ keys' = r.keys
        /\ mcall' = MCall("remove_data", "", r.raised, <<>>)
        /\ UNCHANGED <<tcall, handler, fldVars, housings, run, batch, hsgVars,
                       grpVars, cfgVars>>

\* MagnetData.rename_data
MdRenameData(items) ==
    LET r == RenameDataResult(data, keys, items)
    IN  /\ data' = r.df
        /\ keys' = r.keys
        /\ mcall' = MCall("rename_data", "", r.raised, <<>>)
        /\ UNCHANGED <<tcall, handler, fldVars, housings, run, batch, hsgVars,
                       grpVars, cfgVars>>

\* MagnetData.get_field_info: the handler has get_field_info and answers
MdGetFieldInfo(key) ==
    /\ mcall' = MCall("get_field_info", key, "none",
                      GetFieldInfo(handler.definition, key))
    /\ UNCHANGED <<handler, tabVars, fldVars, housings, run, batch, hsgVars,
                   grpVars, cfgVars>>

\* MagnetData._get_field_coverage
MdGetFieldCoverage ==
    /\ mcall' = MCall("_get_field_coverage", "", "none", GetFieldCoverage(defn, keys))
    /\ UNCHANGED <<handler, tabVars, fldVars, housings, run, batch, hsgVars,
                   grpVars, cfgVars>>

\* data.shape
Shape(df) == <<NRows, Len(df)>>

\* what PandasBasedData.get_info writes into info["metadata"]: the shape,
\* the column labels of dtypes, the number of cells memory_usage sums over
PandasMetadata(df) ==
    [k \in {"shape", "dtypes", "memory_usage"} |->
        CASE k = "shape" -> Shape(df)
          [] k = "dtypes" -> Columns(df)
          [] OTHER -> <<NRows * Len(df)>>]

\* BaseData.get_info: info["metadata"] is self.metadata, the dict itself
BaseGetInfo(h, ks) ==
    [num_keys |-> Len(ks), keys |-> ks, metadata |-> h.metadata,
     field_info |-> [format_name |-> h.definition.format_name,
                     total_fields_defined |-> Len(h.definition.fields),
                     data_keys_count |-> Len(ks)]]

\* self.metadata after PandasBasedData.get_info
PandasGetInfoMetadata(h, df) == DictUpdate(h.metadata, PandasMetadata(df))

\* PandasBasedData.get_info: the dict it returns, as it reads afterwards
PandasGetInfo(h, df, ks) ==
    [BaseGetInfo(h, ks) EXCEPT !.metadata = PandasGetInfoMetadata(h, df)]

\* handler.get_info()
HandlerGetInfo ==
    /\ handler' = WithMetadata(handler, PandasGetInfoMetadata(handler, data))
    /\ mcall' = MCall("handler.get_info", "", "none", PandasGetInfo(handler, data, keys))
    /\ UNCHANGED <<tabVars, fldVars, housings, run, batch, hsgVars, grpVars, cfgVars>>

\* MagnetData.get_info: the handler's info with field_info replaced and the
\* shape written once more
MdGetInfo ==
    LET info == PandasGetInfo(handler, data, keys)
    IN  /\ handler' = WithMetadata(handler, PandasGetInfoMetadata(handler, data))
        /\ mcall' = MCall("get_info", "", "none",
                          [info EXCEPT !.field_info =
                              [format_name |-> defn.format_name,
                               total_fields_defined |-> Len(defn.fields),
                               data_keys_count |-> Len(keys),
                               field_coverage |-> GetFieldCoverage(defn, keys)]])
        /\ UNCHANGED <<tabVars, fldVars, housings, run, batch, hsgVars, grpVars, cfgVars>>

MdNext ==
    \/ \E key \in ColNames, input \in MdInputs :
           MdAddData(key, input, "current", "ampere", "I")
    \/ \E k \in ColNames : MdRemoveData(<<k>>)
    \/ \E items \in ItemsOver(ColNames) : MdRenameData(items)
    \/ \E i \in DOMAIN keys : MdGetFieldInfo(keys[i])
    \/ MdGetFieldCoverage
    \/ HandlerGetInfo
    \/ MdGetInfo

(***************************************************************************)
(* HousingConfig: the categories of one magnet type and data format.  The  *)
(* section is a dict, kept as the sequence of its items in insertion       *)
(* order; a category value is a dict (new format), a list or a str (old    *)
(* format).                                                                *)
(***************************************************************************)
Categories == {"current", "current_formula"}

\* the 'formula' entry of a category dict: absent, or one of these strings
NoKey == "<absent>"
Formulas == {NoKey, "", "   ", "a + b"}

FieldLists == {<<>>, <<"Idcct1">>, <<"Idcct1", "Idcct2">>}

CategoryDict(has_fields, fields, formula) ==
    [kind |-> "dict", has_fields |-> has_fields, fields |-> fields, formula |-> formula]

OldList(fields) == [kind |-> "list", has_fields |-> FALSE, fields |-> fields, formula |-> NoKey]

OldStr(field) == [kind |-> "str", has_fields |-> FALSE, fields |-> <<field>>, formula |-> NoKey]

\* what a housing JSON file can hold under a category name
CategoryValues ==
    {CategoryDict(TRUE, fs, f) : fs \in FieldLists, f \in Formulas}
    \cup {CategoryDict(FALSE, <<>>, "a + b")}
    \cup {OldList(<<"Idcct1">>), OldStr("Idcct3")}

\* bool(s) and s.strip() != "" on the formula strings drawn
Truthy(s) == s # NoKey /\ s # ""
StripNonEmpty(s) == s \notin {"", "   "}

\* key.endswith('_formula')
EndsWithFormula(key) == key = "current_formula"

HasKey(cfg, key) == \E i \in DOMAIN cfg : cfg[i][1] = key
ValueOf(cfg, key) == cfg[CHOOSE i \in DOMAIN cfg : cfg[i][1] = key][2]

\* magnet_config[field_category] = value
PutCategory(cfg, key, value) ==
    IF HasKey(cfg, key)
    THEN [i \in DOMAIN cfg |-> IF cfg[i][1] = key THEN <<key, value>> ELSE cfg[i]]
    ELSE Append(cfg, <<key, value>>)

\* get_field_formula: the 'formula' entry of a category dict, else None
GetFieldFormula(cfg, field_category) ==
    IF HasKey(cfg, field_category) /\ ValueOf(cfg, field_category).kind = "dict"
    THEN ValueOf(cfg, field_category).formula
    ELSE NoKey

\* has_formula: formula is not None and formula.strip() != ""
HasFormula(cfg, field_category) ==
    LET formula == GetFieldFormula(cfg, field_category)
    IN  formula # NoKey /\ StripNonEmpty(formula)

\* get_source_fields, the body of its loop: the fields one item contributes
SourceFieldsOf(key, value) ==
    IF value.kind = "dict" /\ value.has_fields
    THEN IF ~Truthy(value.formula)
         THEN {value.fields[i] : i \in DOMAIN value.fields}
         ELSE {}
    ELSE IF value.kind \in {"list", "str"} /\ ~EndsWithFormula(key)
    THEN {value.fields[i] : i \in DOMAIN value.fields}
    ELSE {}

\* get_source_fields: list(set(...)) of what the items contribute
GetSourceFields(cfg) ==
    UNION {SourceFieldsOf(cfg[i][1], cfg[i][2]) : i \in DOMAIN cfg}

\* get_computed_field_categories: the categories it lists
GetComputedFieldCategories(cfg) ==
    {cfg[i][1] : i \in {j \in DOMAIN cfg :
                          /\ cfg[j][2].kind = "dict"
                          /\ cfg[j][2].has_fields
                          /\ Truthy(cfg[j][2].formula)}}

HCall(op, category) ==
    [op |-> op, category |-> category,
     has_formula |-> HasFormula(hcfg', category),
     computed |-> GetComputedFieldCategories(hcfg'),
     source |-> GetSourceFields(hcfg')]

\* a section read from a housing JSON file
HsgInit ==
    /\ \E key \in Categories, value \in CategoryValues : hcfg = <<<<key, value>>>>
    /\ hcall = NoHCall

\* set_field_config: the formula entry is written only when truthy
SetFieldConfig(field_category, fields, formula) ==
    /\ hcfg' = PutCategory(hcfg, field_category,
                           CategoryDict(TRUE, fields,
                                        IF Truthy(formula) THEN formula ELSE NoKey))
    /\ hcall' = HCall("set_field_config", field_category)
    /\ UNCHANGED <<housings, run, batch, mdVars, tabVars, grpVars, fldVars, cfgVars>>

\* set_fields: the fields of a category dict are replaced; anything else
\* becomes a new category dict with default settings
SetFields(field_category, fields) ==
    /\ hcfg' = IF HasKey(hcfg, field_category)
                  /\ ValueOf(hcfg, field_category).kind = "dict"
               THEN PutCategory(hcfg, field_category,
                                [ValueOf(hcfg, field_category) EXCEPT
                                    !.has_fields = TRUE, !.fields = fields])
               ELSE PutCategory(hcfg, field_category, CategoryDict(TRUE, fields, NoKey))
    /\ hcall' = HCall("set_fields", field_category)
    /\ UNCHANGED <<housings, run, batch, mdVars, tabVars, grpVars, fldVars, cfgVars>>

\* has_formula, get_computed_field_categories and get_source_fields asked
\* one after the other about a category of the section
ClassifyCategory(field_category) ==
    /\ HasKey(hcfg, field_category)
    /\ hcfg' = hcfg
    /\ hcall' = HCall("classify", field_category)
    /\ UNCHANGED <<housings, run, batch, mdVars, tabVars, grpVars, fldVars, cfgVars>>

HsgNext ==
    \/ \E c \in Categories, fs \in FieldLists, f \in Formulas \ {NoKey} :
           SetFieldConfig(c, fs, f)
    \/ \E c \in Categories, fs \in FieldLists : SetFields(c, fs)
    \/ \E c \in Categories : ClassifyCategory(c)

(***************************************************************************)
(* Specifications: each one runs one component and holds the others idle   *)
(***************************************************************************)
InitTab == TabInit /\ GrpIdle /\ FldIdle /\ CfgIdle /\ AppIdle

SpecTab ==
    /\ InitTab
    /\ [][TabNext]_vars

InitGrp == GrpInit /\ TabIdle /\ FldIdle /\ CfgIdle /\ AppIdle

SpecGrp ==
    /\ InitGrp
    /\ [][GrpNext]_vars

InitFld == FldInit /\ TabIdle /\ GrpIdle /\ CfgIdle /\ AppIdle

SpecFld ==
    /\ InitFld
    /\ [][FldNext]_vars

InitFmt == FmtInit /\ TabIdle /\ GrpIdle /\ CfgIdle /\ AppIdle

SpecFmt ==
    /\ InitFmt
    /\ [][FmtNext]_vars

InitCfg == CfgInit /\ RegIdle /\ TabIdle /\ GrpIdle /\ FldIdle /\ AppIdle

InitVal == ValInit /\ GrpIdle /\ CfgIdle /\ AppIdle

SpecVal ==
    /\ InitVal
    /\ [][ValNext]_vars

InitEnv == EnvInit /\ RegIdle /\ TabIdle /\ GrpIdle /\ FldIdle /\ AppIdle

SpecEnv ==
    /\ InitEnv
    /\ [][EnvNext]_vars

InitReg == RegInit /\ TabIdle /\ GrpIdle /\ FldIdle /\ AppIdle

SpecReg ==
    /\ InitReg
    /\ [][RegNext]_vars

SpecStore ==
    /\ InitCfg
    /\ [][StoreNext]_vars

SpecCfg ==
    /\ InitCfg
    /\ [][CfgNext]_vars

SpecCoh ==
    /\ InitCfg
    /\ [][CohNext]_vars

InitRun == RunInit /\ GrpIdle /\ FldIdle /\ CfgIdle

SpecRun ==
    /\ InitRun
    /\ [][RunNext]_vars

InitEtl == EtlInit /\ TabIdle /\ GrpIdle /\ FldIdle /\ CfgIdle

InitHsg ==
    /\ HsgInit /\ housings = {} /\ run = NoRun /\ batch = NoBatch /\ MdIdle
    /\ TabIdle /\ GrpIdle /\ FldIdle /\ CfgIdle

InitMd ==
    /\ MdInit /\ housings = {} /\ run = NoRun /\ batch = NoBatch /\ HsgIdle
    /\ GrpIdle /\ CfgIdle

SpecMd ==
    /\ InitMd
    /\ [][MdNext]_vars

SpecHsg ==
    /\ InitHsg
    /\ [][HsgNext]_vars

SpecEtl ==
    /\ InitEtl
    /\ [][EtlNext]_vars

(***************************************************************************)
(* Properties                                                              *)
(***************************************************************************)
\* C1: keys is the list of the table's column labels, in order and with
\* multiplicity, after every call
KeysEqualColumns == keys = Columns(data)

\* C2: after remove_data or rename_data on the grouped owner, every key
\* names a channel of its group's table and every channel of every table
\* is a key
GroupKeysMatchTables ==
    gcall.op \in {"remove_data", "rename_data"} =>
        /\ \A i \in DOMAIN gkeys :
               /\ HasSlash(gkeys[i])
               /\ gkeys[i][1] \in DOMAIN gdata
               /\ HasCol(gdata[gkeys[i][1]], gkeys[i][2])
        /\ \A grp \in DOMAIN gdata : \A i \in DOMAIN gdata[grp] :
               InSeq(GKey(grp, gdata[grp][i].name), gkeys)


IsLiteral(input) == input.kind \in {"Series", "ndarray", "list"}

\* C3: a successful add_data of a key not yet listed appends that key at the
\* end of keys and keeps the earlier keys in place; with a key already
\* listed it leaves keys as it was, a literal input of the table's length
\* is accepted whether or not the key is listed, and afterwards every
\* column labelled key holds the literal's values
AddAppendsOrOverwrites ==
    tcall.op = "add_data" =>
        /\ (tcall.raised = "none" /\ ~InSeq(tcall.key, tcall.preKeys)) =>
               keys = Append(tcall.preKeys, tcall.key)
        /\ (tcall.raised = "none" /\ InSeq(tcall.key, tcall.preKeys)) =>
               keys = tcall.preKeys
        /\ (IsLiteral(tcall.input) /\ Len(tcall.input.vals) = NRows
                /\ tcall.input.ndim = 1) =>
               /\ tcall.raised = "none"
               /\ HasCol(data, tcall.key)
               /\ \A i \in DOMAIN data :
                      data[i].name = tcall.key => data[i].vals = tcall.input.vals

\* C3 witness: an existing key was overwritten with new values
OverwroteExistingKey ==
    /\ tcall.op = "add_data"
    /\ tcall.raised = "none"
    /\ InSeq(tcall.key, tcall.preKeys)
    /\ Len(tcall.preKeys) > 1
    /\ data # tcall.preData

\* C4: add_data with a literal whose length is not the table's row count,
\* or with an input of an unsupported type, raises DataFormatError and
\* leaves keys and the table as they were; add_data raises nothing else
AddRejectsBadInput ==
    tcall.op = "add_data" =>
        /\ tcall.raised \in {"none", "DataFormatError"}
        /\ (\/ IsLiteral(tcall.input) /\ Len(tcall.input.vals) # NRows
            \/ ~IsLiteral(tcall.input) /\ tcall.input.kind # "str") =>
               /\ tcall.raised = "DataFormatError"
               /\ data = tcall.preData
               /\ keys = tcall.preKeys

\* C4 witness: a literal of the wrong length was refused
RefusedWrongLength ==
    /\ tcall.op = "add_data"
    /\ IsLiteral(tcall.input)
    /\ Len(tcall.input.vals) # NRows
    /\ tcall.raised = "DataFormatError"

\* C5: get_data with a requested key that is not in keys raises
\* KeyNotFoundError, returns nothing and changes nothing; with every
\* requested key in keys it returns a table whose columns are the requested
\* keys in the requested order (grouped owner)
GetDataReturnsRequested ==
    gcall.op = "get_data" =>
        /\ gkeys = gcall.preKeys /\ gdata = gcall.preData
        /\ IF \E i \in DOMAIN gcall.klist : ~InSeq(gcall.klist[i], gcall.preKeys)
           THEN gcall.raised = "KeyNotFoundError" /\ gcall.ret = <<>>
           ELSE gcall.raised = "none" /\ Columns(gcall.ret) = gcall.klist


\* C6: for a key with no Field in the bound definition, and for any key
\* when no definition is bound, get_field_info returns (key, None, ""),
\* get_field_label returns the key, convert_field_values returns the
\* values it was given, and the bound definition is left as it was
UnboundKeyDegrades ==
    (/\ fcall.op \in {"get_field_info", "get_field_label", "convert_field_values"}
     /\ (~fcall.bound \/ fcall.key \notin FieldNames(fcall.preDefn))) =>
        /\ defn = fcall.preDefn
        /\ fcall.op = "get_field_info" => fcall.ret = <<fcall.key, NoUnit, "">>
        /\ fcall.op = "get_field_label" => fcall.ret = <<fcall.key>>
        /\ fcall.op = "convert_field_values" => fcall.ret = fcall.values

\* C6 witness: get_field_info asked for a key the bound, non-empty definition
\* has no Field for
AskedInfoOfUnboundKey ==
    /\ fcall.op = "get_field_info"
    /\ fcall.bound
    /\ defn.fields # <<>>
    /\ fcall.key \notin FieldNames(defn)

\* C7: convert_value and convert_values with a target unit that does not
\* parse return the value(s) they were given
UnparsableTargetIsIdentity ==
    (/\ fcall.op \in {"convert_value", "convert_values"}
     /\ ParseExpression(fcall.unit).raised # "none") =>
        /\ fcall.op = "convert_value" => fcall.ret = fcall.values[1]
        /\ fcall.op = "convert_values" => fcall.ret = fcall.values

\* C7 witness: a Field with a parseable unit of size other than one was
\* asked to convert several values to a unit that does not parse
ConvertedToUnparsableTarget ==
    /\ fcall.op = "convert_values"
    /\ ParseExpression(fcall.unit).raised # "none"
    /\ Len(fcall.values) > 1
    /\ ParseExpression(GetField(defn, fcall.key).unit).raised = "none"

\* C8: from_dict(to_dict(d)) has d's format_name and metadata and d's field
\* names, each with d's field_type, unit, symbol and description
RoundTripPreserves ==
    fcall.op = "round_trip" =>
        /\ fcall.ret.format_name = defn.format_name
        /\ fcall.ret.metadata = defn.metadata
        /\ FieldNames(fcall.ret) = FieldNames(defn)
        /\ \A n \in FieldNames(defn) :
               /\ GetField(fcall.ret, n).field_type = GetField(defn, n).field_type
               /\ GetField(fcall.ret, n).unit = GetField(defn, n).unit
               /\ GetField(fcall.ret, n).symbol = GetField(defn, n).symbol
               /\ GetField(fcall.ret, n).description = GetField(defn, n).description

\* C8 witness: a definition with metadata, several fields and a symbol that
\* is not its type's default went through the round trip
RoundTrippedCustomSymbol ==
    /\ fcall.op = "round_trip"
    /\ Len(defn.fields) > 1
    /\ defn.metadata # EmptyDict
    /\ \E i \in DOMAIN defn.fields :
           defn.fields[i].symbol
               # DefaultSymbol(defn.fields[i].field_type, defn.fields[i].name)

\* C9: the merged definition's field names are the union of base's and
\* overlay's; a name of overlay maps to overlay's Field, a name only of
\* base to base's Field; no name has two entries
MergeOverlayWins ==
    fcall.op = "merge" =>
        /\ FieldNames(fcall.ret) = FieldNames(defn) \cup FieldNames(overlay)
        /\ \A n \in FieldNames(overlay) :
               GetField(fcall.ret, n) = GetField(overlay, n)
        /\ \A n \in FieldNames(defn) \ FieldNames(overlay) :
               GetField(fcall.ret, n) = GetField(defn, n)
        /\ \A i, j \in DOMAIN fcall.ret.fields :
               i # j => fcall.ret.fields[i].name # fcall.ret.fields[j].name

\* C9 witness: base and overlay both define a name, with different Fields,
\* and base also has a name of its own
MergedCollidingName ==
    /\ fcall.op = "merge"
    /\ \E n \in FieldNames(defn) \cap FieldNames(overlay) :
           GetField(defn, n) # GetField(overlay, n)
    /\ FieldNames(defn) \ FieldNames(overlay) # {}


\* C10: once set_base_config_dir(d) has returned, whatever preceded it, the
\* manager's config_paths.base_dir is d and every later load_config,
\* save_config and list_configs reads and writes under d only, whatever
\* MAGNETRUN_CONFIG_DIR holds
ExplicitBaseDirWins ==
    ccall.explicit # "none" =>
        /\ ConfigPathsOf(clsPaths, instPaths, env).base_dir = ccall.explicit
        /\ (/\ ccall.op \in {"load_config", "save_config", "list_configs"}
            /\ ccall.touched # <<>>) =>
               ccall.touched[1] = ccall.explicit

\* the call load_config just made found no usable file: its type is unknown,
\* or its file is absent, or its file is not JSON
LoadFoundNothing ==
    LET a == ccall'.arg
        paths == ConfigPathsOf(clsPaths, instPaths, env)
        path == ConfigPathFor(paths, a.type, a.name)
    IN  /\ ccall'.op = "load_config"
        /\ \/ ~TypeKnown(paths, a.type)
           \/ path \notin DOMAIN disk.files
           \/ disk.files[path] = Malformed

\* the call load_config just made was answered from the cache
LoadServedFromCache ==
    /\ ccall'.arg.use_cache
    /\ CacheKey(ccall'.arg.type, ccall'.arg.name) \in DOMAIN cache

BuiltInsResolveWithoutFiles ==
    (/\ rcall.op = "load_format_definition"
     /\ rcall.name \in BuiltInFormats
     /\ disk.files = EmptyDict) => rcall.ret # NoneData

\* C13: after register_format_definition(def) the definition is in the
\* registry's table and in a JSON file of the backing store (the registry's
\* configs directory or the manager's formats directory).
RegisterIsWriteThrough ==
    rcall.op = "register_format_definition" =>
        /\ DictGet(regDefs, rcall.name) = rcall.ret
        /\ \E p \in DOMAIN disk.files :
              /\ p.dir \in {RegConfigsDir,
                             ConfigPathsOf(clsPaths, instPaths, env).formats_dir}
              /\ disk.files[p] = rcall.ret

\* a step of reload_format_definitions (the manager and the files stand still)
ReloadStep ==
    /\ rcall'.op = "reload_format_definitions"
    /\ UNCHANGED <<ccall, disk, cache, instPaths>>

SharesSymbol(d) ==
    \E i, j \in DOMAIN d.fields :
        i # j /\ d.fields[i].symbol = d.fields[j].symbol

\* some field of d has a unit string that does not parse
HasUnparsableUnit(d) ==
    \E i \in DOMAIN d.fields : ParseExpression(d.fields[i].unit).raised # "none"

\* C15: validate_format_definition reports valid exactly when issues is
\* empty, and issues is non-empty exactly when two field names share a symbol
\* or some field's unit string cannot be parsed; missing descriptions and
\* dimensionless units only add warnings.
ValidIffNoIssues ==
    fcall.op = "validate_format_definition" =>
        /\ fcall.ret.valid = (fcall.ret.issues = <<>>)
        /\ (fcall.ret.issues # <<>>) = (SharesSymbol(defn) \/ HasUnparsableUnit(defn))

\* the entries of keys bound to a Field of d
BoundEntries(d, ks) == {i \in DOMAIN ks : GetField(d, ks[i]) # NoField}

\* C16: in the validation summary, total is the number of entries of keys,
\* the four status counts add up to it, coverage_percent is bound entries /
\* total * 100 and quality_percent is (valid + mostly_valid) / total * 100,
\* both 0 when there are no keys.
SummaryCountsEveryKey ==
    fcall.op = "get_field_validation_summary" =>
        LET r == fcall.ret
        IN  /\ r.total_fields = Len(keys)
            /\ r.valid_fields + r.mostly_valid_fields + r.invalid_fields
                   + r.undefined_fields = Len(keys)
            /\ r.coverage_percent =
                   Percent(Cardinality(BoundEntries(defn, keys)), Len(keys))
            /\ r.quality_percent =
                   Percent(r.valid_fields + r.mostly_valid_fields, Len(keys))
            /\ (keys = <<>>) =>
                   (r.coverage_percent = Frac(0, 1) /\ r.quality_percent = Frac(0, 1))

FracLess(a, b) == a.num * b.den < b.num * a.den

\* C17: with the data keys fixed, adding a Field for a key that was unbound
\* and is among the data keys strictly increases coverage_percent (of the
\* summary and of _get_field_coverage); any other add_field leaves it
\* unchanged.  It never decreases.
BindingNeverLowersCoverage ==
    fcall.op = "add_field" =>
        LET before == fcall.preDefn
            c0 == GetFieldValidationSummary(before, data, keys).coverage_percent
            c1 == GetFieldValidationSummary(defn, data, keys).coverage_percent
            g0 == GetFieldCoverage(before, keys)
            g1 == GetFieldCoverage(defn, keys)
        IN  IF /\ GetField(before, fcall.key) = NoField
               /\ \E i \in DOMAIN keys : keys[i] = fcall.key
            THEN FracLess(c0, c1) /\ FracLess(g0, g1)
            ELSE c1 = c0 /\ g1 = g0

\* the second of three distinct data keys has just been bound: coverage is
\* 200/3, displayed as 66.7
BoundSecondOfThreeKeys ==
    /\ fcall.op = "add_field"
    /\ Len(keys) = 3
    /\ Cardinality({keys[i] : i \in DOMAIN keys}) = 3
    /\ GetField(fcall.preDefn, fcall.key) = NoField
    /\ \E i \in DOMAIN keys : keys[i] = fcall.key
    /\ GetFieldCoverage(defn, keys) = Frac(200, 3)
    /\ Format1f(GetFieldValidationSummary(defn, data, keys).coverage_percent) = 667

\* C18: with MAGNETRUN_FORMATS_DIR set and no base directory set explicitly,
\* once the paths are resolved (lazily, by initialize() or by
\* setup_config_from_env(), MAGNETRUN_CONFIG_DIR set or not) the formats
\* directory the manager uses is the variable's value.
OverrideDirIsUsed ==
    (envOver # Unset /\ ccall.op # "init" /\ ccall.explicit = "none") =>
        /\ ConfigPathsOf(clsPaths, instPaths, env).formats_dir = <<envOver>>
        /\ (/\ ccall.op \in {"load_config", "save_config", "list_configs"}
            /\ ccall.touched # <<>>) => ccall.touched = <<envOver>>

\* C19: when a multi-file etl command has finished, every input file was
\* attempted and every file that raised was reported under its own path
EveryFileAttempted ==
    batch.pc = "done" =>
        /\ batch.attempted = DOMAIN batch.files
        /\ \A i \in DOMAIN batch.files :
               batch.files[i] # "ok" => InSeq(i, batch.reported)

\* C20: after prepare_data on an M9 run whose keys held Idcct1..Idcct4, keys
\* holds IH_ref and IB_ref and no longer holds Idcct1 or Idcct2
PrepareDataM9 ==
    (/\ run.op = "prepare_data"
     /\ run.housing = "M9"
     /\ run.magnet_data # "None"
     /\ \A c \in {"Idcct1", "Idcct2", "Idcct3", "Idcct4"} : InSeq(c, run.preKeys)) =>
        /\ run.raised = "none"
        /\ InSeq("IH_ref", keys)
        /\ InSeq("IB_ref", keys)
        /\ ~InSeq("Idcct1", keys)
        /\ ~InSeq("Idcct2", keys)

\* C21: convert_value on a Field whose own unit does not parse returns the
\* value it was given, whatever the target unit
UnparsableOwnUnitIsIdentity ==
    (/\ fcall.op = "convert_value"
     /\ ParseExpression(GetField(defn, fcall.key).unit).raised # "none") =>
        fcall.ret = fcall.values[1]

\* C22: add_data with a formula first evaluates the right-hand side over the
\* table; if that fails and the right-hand side is the label of an existing
\* column, that column is copied; DataFormatError is raised exactly when
\* both fail, and then keys and the table are as they were
FormulaFallsBackThenRaises ==
    (tcall.op = "add_data" /\ tcall.input.kind = "str") =>
        LET ev == PdEval(tcall.preData, tcall.input.expr)
            rhs == ExprText(tcall.input.expr)
        IN  /\ ev.raised = "none" =>
                   /\ tcall.raised = "none"
                   /\ HasCol(data, tcall.key)
                   /\ \A i \in DOMAIN data :
                          data[i].name = tcall.key => data[i].vals = ev.vals
            /\ (ev.raised # "none" /\ HasCol(tcall.preData, rhs)) =>
                   /\ tcall.raised = "none"
                   /\ HasCol(data, tcall.key)
                   /\ \A i \in DOMAIN data :
                          data[i].name = tcall.key =>
                              \E j \in DOMAIN tcall.preData :
                                  /\ tcall.preData[j].name = rhs
                                  /\ data[i].vals = tcall.preData[j].vals
            /\ (ev.raised # "none" /\ ~HasCol(tcall.preData, rhs)) =>
                   /\ tcall.raised = "DataFormatError"
                   /\ data = tcall.preData
                   /\ keys = tcall.preKeys

\* the assignment df[key] = df[rhs] is one pandas accepts: rhs labels one
\* column, or key already labels as many columns as rhs does
CopyAccepted(df, key, rhs) ==
    \/ CountCol(df, rhs) = 1
    \/ HasCol(df, key) /\ CountCol(df, key) = CountCol(df, rhs)

\* C22 (amended): the right-hand side is evaluated first; if that fails and
\* it labels an existing column, that column is copied; DataFormatError is
\* raised exactly when the evaluation fails and either no column has that
\* label or the copy itself is refused, and then keys and the table are as
\* they were
FormulaFallsBackOrRaises ==
    (tcall.op = "add_data" /\ tcall.input.kind = "str") =>
        LET ev == PdEval(tcall.preData, tcall.input.expr)
            rhs == ExprText(tcall.input.expr)
            copied == /\ HasCol(tcall.preData, rhs)
                      /\ CopyAccepted(tcall.preData, tcall.key, rhs)
        IN  /\ ev.raised = "none" =>
                   /\ tcall.raised = "none"
                   /\ HasCol(data, tcall.key)
                   /\ \A i \in DOMAIN data :
                          data[i].name = tcall.key => data[i].vals = ev.vals
            /\ (ev.raised # "none" /\ copied) =>
                   /\ tcall.raised = "none"
                   /\ HasCol(data, tcall.key)
                   /\ \A i \in DOMAIN data :
                          data[i].name = tcall.key =>
                              \E j \in DOMAIN tcall.preData :
                                  /\ tcall.preData[j].name = rhs
                                  /\ data[i].vals = tcall.preData[j].vals
            /\ (ev.raised # "none" /\ ~copied) =>
                   /\ tcall.raised = "DataFormatError"
                   /\ data = tcall.preData
                   /\ keys = tcall.preKeys

\* C22 witness: the evaluation failed and the column named by the right-hand
\* side was copied under a new key
CopiedAliasColumn ==
    /\ tcall.op = "add_data"
    /\ tcall.input.kind = "str"
    /\ PdEval(tcall.preData, tcall.input.expr).raised # "none"
    /\ tcall.raised = "none"
    /\ ~InSeq(tcall.key, tcall.preKeys)
    /\ InSeq(tcall.key, keys)

\* C23: add_data on the grouped owner either succeeds, leaving the new key
\* in keys, or reports its failure as DataFormatError
GroupedAddDataSucceedsOrReports ==
    gcall.op = "add_data" =>
        \/ gcall.raised = "none" /\ Len(gkeys) = Len(gcall.preKeys) + 1
        \/ gcall.raised = "DataFormatError"

\* the content load_config can read for (config_type, config_name), or
\* NoneData when the type is unknown, the file is missing or it is not JSON
ReadableContent(config_type, config_name) ==
    LET paths == ConfigPathsOf(clsPaths, instPaths, env)
        path == ConfigPathFor(paths, config_type, config_name)
    IN  IF ~TypeKnown(paths, config_type) THEN NoneData
        ELSE IF path \notin DOMAIN disk.files THEN NoneData
        ELSE IF disk.files[path] = Malformed THEN NoneData
        ELSE disk.files[path]

\* C24: reload_config(type, name) leaves every other cache entry as it was;
\* afterwards its own entry holds the file's current content, or is absent
\* when the file is missing or malformed; clear_cache empties the cache and
\* changes neither the resolved paths nor any file
ReloadEvictsOneClearEvictsAll ==
    [][/\ \A t \in StoreTargets :
              ReloadConfig(t[1], t[2]) =>
                  LET key == CacheKey(t[1], t[2])
                      content == ReadableContent(t[1], t[2])
                  IN  /\ \A k \in DOMAIN cache \ {key} :
                             k \in DOMAIN cache' /\ cache'[k] = cache[k]
                      /\ DOMAIN cache' \subseteq DOMAIN cache \cup {key}
                      /\ disk'.files = disk.files
                      /\ IF content = NoneData
                         THEN key \notin DOMAIN cache'
                         ELSE key \in DOMAIN cache' /\ cache'[key] = content
       /\ ClearCache =>
              /\ cache' = EmptyDict
              /\ disk' = disk
              /\ clsPaths' = clsPaths /\ instPaths' = instPaths]_vars

\* C24 witness: a reload dropped its own entry, whose file had become
\* unreadable, and kept another entry
ReloadDroppedOnlyItsEntry ==
    /\ ccall.op = "reload_config"
    /\ ccall.ret = NoneData
    /\ CacheKey(ccall.arg.type, ccall.arg.name) \notin DOMAIN cache
    /\ ccall.touched # <<>>
    /\ ConfigPathFor(ConfigPathsOf(clsPaths, instPaths, env),
                     ccall.arg.type, ccall.arg.name) \in DOMAIN disk.files
    /\ cache # EmptyDict

\* the non-null cells under key that pd.to_numeric cannot parse, and those
\* it can, where validate_field_data attempts the parse at all
FailingValues(d, df, key) ==
    IF GetField(d, key).field_type = "INDEX" THEN 0
    ELSE Cardinality({r \in 1..Len(ValColumn(key)) : ValColumn(key)[r] = "text"})

PassingValues(d, df, key) ==
    Cardinality({r \in 1..Len(ValColumn(key)) : ValColumn(key)[r] # "NaN"})
        - FailingValues(d, df, key)

\* the validation of key cannot be carried out on df: key labels several
\* columns, which pd.to_numeric refuses
HardError(d, df, key) ==
    GetField(d, key).field_type # "INDEX" /\ CountCol(df, key) > 1

\* C25: validate_field_data on a bound key reports valid when no non-null
\* value fails the numeric parse, mostly_valid when some fail and no more
\* fail than pass, invalid when more fail than pass or a hard error occurs;
\* on an unbound key it reports no_field_definition
ClassifiesByMajority ==
    fcall.op = "validate_field_data" =>
        IF GetField(defn, fcall.key) = NoField
        THEN fcall.ret = "no_field_definition"
        ELSE LET failing == FailingValues(defn, data, fcall.key)
                 passing == PassingValues(defn, data, fcall.key)
                 hard == HardError(defn, data, fcall.key)
             IN  /\ fcall.ret \in {"valid", "mostly_valid", "invalid"}
                 /\ fcall.ret = "invalid" <=> (hard \/ failing > passing)
                 /\ fcall.ret = "valid" <=> (~hard /\ failing = 0)

\* in d, the Field found under each stored Field's name is that Field
KeyedByName(d) ==
    \A i \in DOMAIN d.fields : GetField(d, d.fields[i].name) = d.fields[i]

ClassifiersAgree ==
    (/\ hcall.op = "classify"
     /\ ValueOf(hcfg, hcall.category).kind = "dict"
     /\ ValueOf(hcfg, hcall.category).has_fields
     /\ ValueOf(hcfg, hcall.category).fields # <<>>) =>
        LET value == ValueOf(hcfg, hcall.category)
            fields == {value.fields[i] : i \in DOMAIN value.fields}
        IN  /\ hcall.has_formula <=> hcall.category \in hcall.computed
            /\ ~hcall.has_formula => fields \subseteq hcall.source
            /\ hcall.has_formula => SourceFieldsOf(hcall.category, value) = {}

\* C28: with files changed only through the manager, a load_config answered
\* from the cache returns what load_config(use_cache=False) reads from the
\* file the name resolves to
CachedLoadMatchesFile ==
    (/\ ccall.op = "load_config"
     /\ ccall.arg.use_cache
     /\ ccall.touched = <<>>
     /\ CacheKey(ccall.arg.type, ccall.arg.name) \in DOMAIN cache) =>
        ccall.ret = ReadableContent(ccall.arg.type, ccall.arg.name)

\* C29: a key that _get_field_coverage and get_field_validation_summary count
\* as bound is one get_field_info resolves through a Field, and conversely
CoverageAgreesWithFieldInfo ==
    (mcall.op = "get_field_info") =>
        ((GetField(defn, mcall.key) # NoField)
            <=> (mcall.ret # <<mcall.key, NoUnit, "">>))

\* C30: get_info leaves the owner's metadata dict, and with it the dict
\* supplied at construction, as they were
GetInfoLeavesMetadata ==
    (mcall.op \in {"get_info", "handler.get_info"}) =>
        /\ handler.metadata = mcall.pre.metadata
        /\ handler.supplied = mcall.pre.supplied

====
